---- MODULE Spec2Model ----
(***************************************************************************)
(* Verification model of the yfinance-api Go client.                       *)
(*                                                                         *)
(*  - the session bootstrap of the shared Client (Client.Get, getCrumb,    *)
(*    getCookie, get), with any number of goroutines calling Get on the    *)
(*    one Client.  The Client's fields are read and written with no        *)
(*    synchronisation, so every read and every write of crumb / cookies    *)
(*    is a step of its own and any interleaving of them is a behaviour.    *)
(*  - the singleton construction (getClient, NewClient, NewTicker).        *)
(*  - the response normalisation (extractFinancialRatios and the other     *)
(*    extract* functions, behind their Fetch* entry points).               *)
(*  - the time series transformation (FetchHistoricalData,                 *)
(*    transformHistoricalData) and the query defaults.                     *)
(*  - what each Fetch* function makes of the outcome of its one call of    *)
(*    Client.Get: a transport error, an unreadable or malformed body, an   *)
(*    empty result array, or a result.                                     *)
(***************************************************************************)
EXTENDS Integers, Sequences, FiniteSets, TLC

\* ------------------------------------------------------------------ bounds
NumCallers == 2     \* goroutines that call Client.Get
MaxCalls == 2       \* Client.Get calls started in one behaviour (all callers)
MaxNew == 3         \* NewClient / NewTicker calls started in one behaviour
MaxFields == 2      \* non-absent fields of one decoded response
MaxStatements == 2  \* statement entries of one decoded response
MaxPoints == 2      \* timestamps, and values per quote array, of one chart
MaxSetDefaults == 2 \* calls of SetDefault on one Query

Callers == 1..NumCallers

\* --------------------------------------------------------- value domains
\* Response bodies the crumb endpoint can return ("" is the empty body, and
\* one body has white space around it).
Bodies == {"", "a", " b "}
\* The responses of the crumb endpoint whose body can be read: a status
\* beside each body.
CrumbResponses ==
    {[status |-> "200", body |-> ""], [status |-> "200", body |-> "a"],
     [status |-> "401", body |-> " b "]}
\* No crumb response has been read.
NoResponse == [status |-> "none", body |-> ""]
\* Cookie slices resp.Cookies() can return (the empty slice included).
CookieJars == {{}, {"A"}}
\* Outcomes of the transport (c.client.Do) for a data request: an error, or
\* a response of some HTTP status (Get returns the response whatever it is).
DataOutcomes == {"transportError", "200", "401"}
\* The request carries no crumb query parameter.
NoParam == "<no crumb parameter>"

VARIABLES
    \* Client fields (part_001:137-141)
    crumb,          \* Client.crumb: "" until a crumb body is stored
    cookies,        \* Client.cookies: the set of held cookies
    \* one record of control state per goroutine
    pc,             \* "idle" | "getCookie" | "sign" | "add" | "do" | "wait"
    phase,          \* which request the goroutine's get() is for
    reqCrumb,       \* crumb parameter of the request being built / in flight
    reqCookies,     \* cookies attached to the request in flight
    fast,           \* this call found crumb non-empty on entry
    bootFail,       \* bootstrap requests of this call that failed
    trace,          \* requests issued / completed by this call, in order
    dataOutcome,    \* what the transport returned for the data request
    ret,            \* what Client.Get returned
    \* history of the whole process
    calls,          \* Client.Get calls started
    cookieReqs,     \* GETs issued to the cookie-issuing endpoint
    crumbReqs,      \* GETs issued to the crumb-issuing endpoint
    cookieWrites,   \* assignments to Client.cookies
    crumbWrites,    \* assignments to Client.crumb
    crumbResp,      \* the crumb response read last
    \* package state of the singleton (part_001:143-144) and its users
    onceState,      \* sync.Once: "new" | "running" | "done"
    instance,       \* the package variable instance (NilClient until set)
    constructed,    \* Client objects constructed so far
    wrappers,       \* YFinanceAPI objects returned, in order of allocation
    tickers,        \* Ticker objects returned: the Client each references
    npc,            \* "idle" | "once" | "init" | "ret" | "wrap" | "tick"
    kind,           \* the constructor a goroutine is in: "client" | "ticker"
    got,            \* the Client getClient returned to the goroutine
    mine,           \* the address of the wrapper NewClient returned to it
    newCalls,       \* NewClient and NewTicker calls started
    \* response normalisation
    result,         \* the decoded quoteSummary result[0] handed to extract*
    ratios,         \* the FinancialRatios extractFinancialRatios returned
    nvals,          \* how many non-absent values the result holds
    xpc,            \* "input": the response is being decoded | "done"
    \* the Fetch* entry points past the transport
    resultArray,    \* the decoded top-level result array: "null" | "empty" | "entries"
    returned,       \* what the Fetch* function returned: [op, value, err]
    statements,     \* the three statement history modules of result[0]
    dividendResult, \* result[0] as FetchDividendInfo decodes it
    \* the time series
    historyResponse,\* the decoded chart response (YahooHistoryResponse)
    location,       \* time.Local: its offset from UTC, in seconds
    sent,           \* the query parameters FetchHistoricalData sent
    query,          \* a Query value (part_000:76-81)
    setDefaults,    \* Query.SetDefault calls made on it
    infoResult,     \* result[0].Price as FetchInformation decodes it
    \* the call of Client.Get inside a Fetch* function
    getOutcome,     \* what Client.Get returns: "response" or an error
    bodyState,      \* the response body: "json" | "malformed" | "unreadable"
    topError,       \* the top-level error field of the response
    dataRequests    \* data requests sent by Fetch* functions

sessVars == <<crumb, cookies, pc, phase, reqCrumb, reqCookies, fast,
              bootFail, trace, dataOutcome, ret, calls, cookieReqs, crumbReqs,
              cookieWrites, crumbWrites, crumbResp>>

newVars == <<onceState, instance, constructed, wrappers, tickers, npc, kind,
             got, mine, newCalls>>

exVars == <<result, ratios, nvals, xpc>>

fetchVars == <<resultArray, returned, statements, dividendResult>>

chartVars == <<historyResponse, location, sent, query, setDefaults, infoResult>>

arrived == <<getOutcome, bodyState, topError>>

wireVars == <<arrived, dataRequests>>

vars == <<sessVars, newVars, exVars, fetchVars, chartVars, wireVars>>

notSession == <<newVars, exVars, fetchVars, chartVars, wireVars>>
notPackage == <<sessVars, exVars, fetchVars, chartVars, wireVars>>
notExtract == <<sessVars, newVars, fetchVars, chartVars, wireVars>>
notFetch == <<sessVars, newVars, ratios, nvals, chartVars, wireVars>>
notChart == <<sessVars, newVars, result, ratios, nvals, resultArray,
              statements, dividendResult, wireVars>>
notReturned == <<sessVars, newVars, ratios, nvals, chartVars, arrived>>

callVars == <<reqCookies, fast, bootFail, trace, dataOutcome, ret>>
histVars == <<calls, cookieReqs, crumbReqs, cookieWrites, crumbWrites, crumbResp>>

\* ------------------------------------------------------------ the session

\* The Client as getClient constructs it, no call made yet.
InitSession ==
    /\ crumb = ""
    /\ cookies = {}
    /\ pc = [p \in Callers |-> "idle"]
    /\ phase = [p \in Callers |-> "none"]
    /\ reqCrumb = [p \in Callers |-> NoParam]
    /\ reqCookies = [p \in Callers |-> {}]
    /\ fast = [p \in Callers |-> FALSE]
    /\ bootFail = [p \in Callers |-> {}]
    /\ trace = [p \in Callers |-> <<>>]
    /\ dataOutcome = [p \in Callers |-> "none"]
    /\ ret = [p \in Callers |-> "none"]
    /\ calls = 0
    /\ cookieReqs = 0
    /\ crumbReqs = 0
    /\ cookieWrites = 0
    /\ crumbWrites = 0
    /\ crumbResp = NoResponse

\* A getCrumb without its early return: it bootstraps on every call.
getCrumbSkips_M == FALSE

\* getCrumb, line 208: a held crumb ends getCrumb at once.
getCrumbSkips == crumb # ""

\* A getCookie that always takes its early return: no cookie request.
getCookieSkips_M == TRUE

\* A getCookie without its early return: a cookie request on every call.
getCookieSkips_Never == FALSE

\* getCookie, line 193: held cookies end getCookie at once.
getCookieSkips == Cardinality(cookies) > 0

\* get, line 159: the crumb parameter is added when the crumb is not empty.
getAddsCrumb == crumb # ""

\* A Get that reports a bootstrap failure instead of the data outcome.
GetResult_M(p, o) == IF bootFail[p] # {} THEN "bootstrapError" ELSE o

\* Get, line 155: Get returns what get(url, params) returned.
GetResult(p, o) == o

\* A getCrumb that stores the body of a 200 response only.
crumbOf_StatusOK(resp) == IF resp.status = "200" THEN resp.body ELSE ""

\* getCrumb, line 232: c.crumb = string(body).
crumbOf(resp) == resp.body

\* Client.Get entered: it calls getCrumb, whose first statement reads crumb.
\* A non-empty crumb returns at once and Get goes on to get(url, params).
Get(p) ==
    /\ pc[p] = "idle"
    /\ calls < MaxCalls
    /\ calls' = calls + 1
    /\ fast' = [fast EXCEPT ![p] = (crumb # "")]
    /\ bootFail' = [bootFail EXCEPT ![p] = {}]
    /\ trace' = [trace EXCEPT ![p] = <<>>]
    /\ dataOutcome' = [dataOutcome EXCEPT ![p] = "none"]
    /\ ret' = [ret EXCEPT ![p] = "none"]
    /\ reqCrumb' = [reqCrumb EXCEPT ![p] = NoParam]
    /\ reqCookies' = [reqCookies EXCEPT ![p] = {}]
    /\ IF getCrumbSkips
         THEN /\ phase' = [phase EXCEPT ![p] = "data"]
              /\ pc' = [pc EXCEPT ![p] = "sign"]
         ELSE /\ phase' = [phase EXCEPT ![p] = "none"]
              /\ pc' = [pc EXCEPT ![p] = "getCookie"]
    /\ UNCHANGED <<crumb, cookies, cookieReqs, crumbReqs, cookieWrites, crumbWrites,
                   crumbResp>>
    /\ UNCHANGED notSession

\* getCookie entered: held cookies skip the cookie request, and getCrumb
\* goes on to the crumb request; otherwise get(cookie endpoint) starts.
getCookie(p) ==
    /\ pc[p] = "getCookie"
    /\ phase' = [phase EXCEPT ![p] = IF getCookieSkips THEN "crumb" ELSE "cookie"]
    /\ pc' = [pc EXCEPT ![p] = "sign"]
    /\ reqCrumb' = [reqCrumb EXCEPT ![p] = NoParam]
    /\ UNCHANGED <<crumb, cookies, callVars, histVars>>
    /\ UNCHANGED notSession

\* get, line 159: the test c.crumb != "".
getSign(p) ==
    /\ pc[p] = "sign"
    /\ pc' = [pc EXCEPT ![p] = IF getAddsCrumb THEN "add" ELSE "do"]
    /\ reqCrumb' = [reqCrumb EXCEPT ![p] = NoParam]
    /\ UNCHANGED <<crumb, cookies, phase, callVars, histVars>>
    /\ UNCHANGED notSession

\* get, line 160: params.Add("crumb", c.crumb), a second read of the field.
getAdd(p) ==
    /\ pc[p] = "add"
    /\ reqCrumb' = [reqCrumb EXCEPT ![p] = crumb]
    /\ pc' = [pc EXCEPT ![p] = "do"]
    /\ UNCHANGED <<crumb, cookies, phase, callVars, histVars>>
    /\ UNCHANGED notSession

\* get, lines 162-183: the request is built (a URL that does not parse ends
\* get, and with it Get, with http.NewRequest's error, nothing sent), every
\* held cookie is attached, and the request goes out.  The two bootstrap
\* endpoints are fixed, well-formed URLs.  A returning call's locals are dead
\* and are cleared; ret and dataOutcome stay for the caller to see.
getDo(p) ==
    /\ pc[p] = "do"
    /\ \/ /\ phase[p] = "data"
          /\ ret' = [ret EXCEPT ![p] = "badURL"]
          /\ dataOutcome' = [dataOutcome EXCEPT ![p] = "notSent"]
          /\ pc' = [pc EXCEPT ![p] = "idle"]
          /\ phase' = [phase EXCEPT ![p] = "none"]
          /\ reqCrumb' = [reqCrumb EXCEPT ![p] = NoParam]
          /\ fast' = [fast EXCEPT ![p] = FALSE]
          /\ bootFail' = [bootFail EXCEPT ![p] = {}]
          /\ trace' = [trace EXCEPT ![p] = <<>>]
          /\ UNCHANGED <<reqCookies, cookieReqs, crumbReqs>>
       \/ /\ reqCookies' = [reqCookies EXCEPT ![p] = cookies]
          /\ trace' = [trace EXCEPT ![p] = Append(@, <<phase[p], "req">>)]
          /\ cookieReqs' = cookieReqs + (IF phase[p] = "cookie" THEN 1 ELSE 0)
          /\ crumbReqs' = crumbReqs + (IF phase[p] = "crumb" THEN 1 ELSE 0)
          /\ pc' = [pc EXCEPT ![p] = "wait"]
          /\ UNCHANGED <<phase, reqCrumb, fast, bootFail, ret, dataOutcome>>
    /\ UNCHANGED <<crumb, cookies, calls, cookieWrites, crumbWrites, crumbResp>>
    /\ UNCHANGED notSession

\* getCookie, lines 198-204: the cookie request returns.  An error is logged
\* and nothing stored; otherwise c.cookies = resp.Cookies().  Control is
\* back in getCrumb, which starts get(crumb endpoint).
getCookieDone(p) ==
    /\ pc[p] = "wait"
    /\ phase[p] = "cookie"
    /\ \/ /\ bootFail' = [bootFail EXCEPT ![p] = @ \cup {"cookie"}]
          /\ UNCHANGED <<cookies, cookieWrites>>
       \/ \E jar \in CookieJars :
            /\ cookies' = jar
            /\ cookieWrites' = cookieWrites + 1
            /\ UNCHANGED bootFail
    /\ trace' = [trace EXCEPT ![p] = Append(@, <<"cookie", "done">>)]
    /\ phase' = [phase EXCEPT ![p] = "crumb"]
    /\ pc' = [pc EXCEPT ![p] = "sign"]
    /\ reqCrumb' = [reqCrumb EXCEPT ![p] = NoParam]
    /\ reqCookies' = [reqCookies EXCEPT ![p] = {}]
    /\ UNCHANGED <<crumb, fast, dataOutcome, ret,
                   calls, cookieReqs, crumbReqs, crumbWrites, crumbResp>>
    /\ UNCHANGED notSession

\* getCrumb, lines 214-232: the crumb request returns.  A transport error or
\* a failed body read is logged and nothing stored; otherwise
\* c.crumb = string(body), whatever the body and the status.  getCrumb
\* returns and Get starts get(url, params).
getCrumbDone(p) ==
    /\ pc[p] = "wait"
    /\ phase[p] = "crumb"
    /\ \/ /\ bootFail' = [bootFail EXCEPT ![p] = @ \cup {"crumb"}]
          /\ UNCHANGED <<crumb, crumbWrites, crumbResp>>
       \/ \E resp \in CrumbResponses :
            /\ crumb' = crumbOf(resp)
            /\ crumbResp' = resp
            /\ crumbWrites' = crumbWrites + 1
            /\ UNCHANGED bootFail
    /\ trace' = [trace EXCEPT ![p] = Append(@, <<"crumb", "done">>)]
    /\ phase' = [phase EXCEPT ![p] = "data"]
    /\ pc' = [pc EXCEPT ![p] = "sign"]
    /\ reqCrumb' = [reqCrumb EXCEPT ![p] = NoParam]
    /\ reqCookies' = [reqCookies EXCEPT ![p] = {}]
    /\ UNCHANGED <<cookies, fast, dataOutcome, ret,
                   calls, cookieReqs, crumbReqs, cookieWrites>>
    /\ UNCHANGED notSession

\* Get, line 155, and get, lines 183-189: the data request returns and Get
\* returns what get returned.
GetReturn(p) ==
    /\ pc[p] = "wait"
    /\ phase[p] = "data"
    /\ \E o \in DataOutcomes :
         /\ dataOutcome' = [dataOutcome EXCEPT ![p] = o]
         /\ ret' = [ret EXCEPT ![p] = GetResult(p, o)]
    /\ pc' = [pc EXCEPT ![p] = "idle"]
    /\ phase' = [phase EXCEPT ![p] = "none"]
    /\ reqCrumb' = [reqCrumb EXCEPT ![p] = NoParam]
    /\ reqCookies' = [reqCookies EXCEPT ![p] = {}]
    /\ fast' = [fast EXCEPT ![p] = FALSE]
    /\ bootFail' = [bootFail EXCEPT ![p] = {}]
    /\ trace' = [trace EXCEPT ![p] = <<>>]
    /\ UNCHANGED <<crumb, cookies, histVars>>
    /\ UNCHANGED notSession

\* One goroutine's step inside a call.
Step(p) ==
    \/ getCookie(p)
    \/ getSign(p)
    \/ getAdd(p)
    \/ getDo(p)
    \/ getCookieDone(p)
    \/ getCrumbDone(p)
    \/ GetReturn(p)

\* --------------------------------------------------------- the singleton

NilClient == 0

\* The package before any NewClient: once unused, instance nil.
InitNew ==
    /\ onceState = "new"
    /\ instance = NilClient
    /\ constructed = 0
    /\ wrappers = <<>>
    /\ tickers = <<>>
    /\ npc = [p \in Callers |-> "idle"]
    /\ kind = [p \in Callers |-> "client"]
    /\ got = [p \in Callers |-> NilClient]
    /\ mine = [p \in Callers |-> 0]
    /\ newCalls = 0

\* The package after one NewTicker call: the state the Get calls run in.
InitConstructed ==
    /\ onceState = "done"
    /\ instance = 1
    /\ constructed = 1
    /\ wrappers = << [addr |-> 1, Client |-> 1] >>
    /\ tickers = << [Client |-> 1] >>
    /\ npc = [p \in Callers |-> "idle"]
    /\ kind = [p \in Callers |-> "client"]
    /\ got = [p \in Callers |-> NilClient]
    /\ mine = [p \in Callers |-> 0]
    /\ newCalls = 1

\* NewClient called (line 237): it calls getClient, which calls once.Do.
NewClient(p) ==
    /\ npc[p] = "idle"
    /\ newCalls < MaxNew
    /\ newCalls' = newCalls + 1
    /\ kind' = [kind EXCEPT ![p] = "client"]
    /\ npc' = [npc EXCEPT ![p] = "once"]
    /\ UNCHANGED <<onceState, instance, constructed, wrappers, tickers, got, mine>>
    /\ UNCHANGED notPackage

\* NewTicker called (line 245): it calls NewClient.
NewTicker(p) ==
    /\ npc[p] = "idle"
    /\ newCalls < MaxNew
    /\ newCalls' = newCalls + 1
    /\ kind' = [kind EXCEPT ![p] = "ticker"]
    /\ npc' = [npc EXCEPT ![p] = "once"]
    /\ UNCHANGED <<onceState, instance, constructed, wrappers, tickers, got, mine>>
    /\ UNCHANGED notPackage

\* A getClient without the sync.Once: every call constructs.
onceWins_M == TRUE

\* once.Do decides that this goroutine runs the function (line 147).
onceWins == onceState = "new"

\* getClient, line 147: once.Do.  The first goroutine runs the function;
\* one that arrives while it runs waits; one that arrives later passes.
onceDo(p) ==
    /\ npc[p] = "once"
    /\ onceState # "running"
    /\ IF onceWins
         THEN /\ onceState' = "running"
              /\ npc' = [npc EXCEPT ![p] = "init"]
         ELSE /\ onceState' = onceState
              /\ npc' = [npc EXCEPT ![p] = "ret"]
    /\ UNCHANGED <<instance, constructed, wrappers, tickers, kind, got, mine, newCalls>>
    /\ UNCHANGED notPackage

\* getClient, line 148: the function once.Do runs constructs the Client and
\* stores it in instance; once.Do then lets every caller through.
onceInit(p) ==
    /\ npc[p] = "init"
    /\ constructed' = constructed + 1
    /\ instance' = constructed + 1
    /\ onceState' = "done"
    /\ npc' = [npc EXCEPT ![p] = "ret"]
    /\ UNCHANGED <<wrappers, tickers, kind, got, mine, newCalls>>
    /\ UNCHANGED notPackage

\* getClient, line 150: return instance.
getClientReturn(p) ==
    /\ npc[p] = "ret"
    /\ got' = [got EXCEPT ![p] = instance]
    /\ npc' = [npc EXCEPT ![p] = "wrap"]
    /\ UNCHANGED <<onceState, instance, constructed, wrappers, tickers, kind,
                   mine, newCalls>>
    /\ UNCHANGED notPackage

\* The address of the YFinanceAPI object NewClient allocates (line 238).
NewWrapperAddr == Len(wrappers) + 1

\* NewClient, lines 238-240: a new YFinanceAPI around what getClient
\* returned.  NewClient returns it; NewTicker goes on to InstantiateTicker.
NewClientReturn(p) ==
    /\ npc[p] = "wrap"
    /\ wrappers' = Append(wrappers, [addr |-> NewWrapperAddr, Client |-> got[p]])
    /\ mine' = [mine EXCEPT ![p] = NewWrapperAddr]
    /\ npc' = [npc EXCEPT ![p] = IF kind[p] = "ticker" THEN "tick" ELSE "idle"]
    /\ UNCHANGED <<onceState, instance, constructed, tickers, kind, got, newCalls>>
    /\ UNCHANGED notPackage

\* NewTicker, line 247, and InstantiateTicker (ticker.go:18-25): the Ticker
\* takes the Client of the wrapper NewClient returned.
InstantiateTicker(p) ==
    /\ npc[p] = "tick"
    /\ tickers' = Append(tickers, [Client |-> wrappers[mine[p]].Client])
    /\ npc' = [npc EXCEPT ![p] = "idle"]
    /\ UNCHANGED <<onceState, instance, constructed, wrappers, kind, got, mine, newCalls>>
    /\ UNCHANGED notPackage

NewStep(p) ==
    \/ NewClient(p)
    \/ NewTicker(p)
    \/ onceDo(p)
    \/ onceInit(p)
    \/ getClientReturn(p)
    \/ NewClientReturn(p)
    \/ InstantiateTicker(p)

\* ------------------------------------------------ response normalisation

\* A nil *PriceValue, and the PriceValue objects a response can hold.
Nil == "nil"
PriceValues == {"v1", "v2"}

\* The *PriceValue fields of the anonymous summaryDetail struct
\* (part_000:281-290).
SummaryDetailFields ==
    {"MarketCap", "ForwardPE", "TrailingPE", "PriceToSalesTrailing12Months",
     "PriceToBook", "Beta", "DividendRate", "DividendYield"}

\* The fields of FinancialRatios (part_000:182-216), the type financialData
\* decodes into and extractFinancialRatios returns.
FinancialRatiosFields ==
    {"PriceToEarningsRatio", "PriceToBookRatio", "PriceToSalesRatio",
     "PriceToEbitda", "EnterpriseToRevenue", "EnterpriseToEbitda",
     "ReturnOnEquity", "ReturnOnAssets", "GrossMargins", "EbitdaMargins",
     "OperatingMargins", "ProfitMargins", "CurrentRatio", "QuickRatio",
     "DebtToEquity", "TotalDebtToCapital", "EarningsGrowth", "RevenueGrowth",
     "EarningsPerShare", "BookValuePerShare", "DividendRate", "DividendYield"}

\* The *PriceValue fields of FinancialSummary (part_000:219-233), the type
\* defaultKeyStatistics decodes into; MaxAge, an int, is held beside them.
FinancialSummaryFields ==
    {"MarketCap", "EnterpriseValue", "ForwardPE", "TrailingPE", "PegRatio",
     "PriceToSalesTrailing12Months", "PriceToBook", "Beta", "FiftyTwoWeekLow",
     "FiftyTwoWeekHigh", "FiftyDayAverage", "TwoHundredDayAverage"}

\* The modules of a result and the fields of each (part_000:278-290).
Modules == {"DefaultKeyStatistics", "FinancialData", "SummaryDetail"}

FieldsOf(m) ==
    CASE m = "DefaultKeyStatistics" -> FinancialSummaryFields
      [] m = "FinancialData" -> FinancialRatiosFields
      [] m = "SummaryDetail" -> SummaryDetailFields

\* A module pointer: nil (present = FALSE) or a struct with every field nil.
NilModule(m) == [present |-> FALSE, MaxAge |-> 0, v |-> [f \in FieldsOf(m) |-> Nil]]

\* The zero value of the result struct: what decoding starts from.
ZeroResult == [m \in Modules |-> NilModule(m)]

\* The zero value FinancialRatios{} (ticker_utils.go:105).
ZeroRatios == [f \in FinancialRatiosFields |-> Nil]

\* The non-absent values of a result.
SetFields(r) == {mf \in UNION {{<<m, f>> : f \in FieldsOf(m)} : m \in Modules} :
                    r[mf[1]].v[mf[2]] # Nil}

\* A nil error, and what a Fetch* call that has not returned has returned.
NoError == "nil"
NotReturned == [op |-> "none", value |-> Nil, err |-> NoError]

\* The statement history modules of a result (part_000:291-320) and the
\* fields of their entries.
Histories ==
    {"IncomeStatementHistory", "BalanceSheetHistory", "CashflowStatementHistory"}

StatementFields(h) ==
    CASE h = "IncomeStatementHistory" ->
           {"EndDate", "TotalRevenue", "GrossProfit", "OperatingIncome",
            "NetIncome", "Ebitda"}
      [] h = "BalanceSheetHistory" ->
           {"EndDate", "TotalAssets", "TotalLiab", "TotalStockholderEquity",
            "TotalDebt", "Cash"}
      [] h = "CashflowStatementHistory" ->
           {"EndDate", "TotalCashFromOperatingActivities",
            "CapitalExpenditures", "FreeCashFlow", "DividendsPaid"}

\* No history module decoded: three nil pointers.
ZeroStatements == [h \in Histories |-> [present |-> FALSE, entries |-> <<>>]]

\* The summaryDetail and defaultKeyStatistics structs FetchDividendInfo
\* decodes into (ticker.go:488-500).
DividendModules == {"SummaryDetail", "DefaultKeyStatistics"}

DividendFieldsOf(m) ==
    CASE m = "SummaryDetail" ->
           {"DividendRate", "DividendYield", "ExDividendDate", "DividendDate",
            "PayoutRatio", "FiveYearAvgDividendYield"}
      [] m = "DefaultKeyStatistics" ->
           {"DividendRate", "DividendYield", "PayoutRatio",
            "FiveYearAvgDividendYield"}

ZeroDividendResult ==
    [m \in DividendModules |->
        [present |-> FALSE, v |-> [f \in DividendFieldsOf(m) |-> Nil]]]

\* The decoded response: what the Fetch* functions read.
decoded == <<result, resultArray, statements, dividendResult>>

\* The zero value YahooTickerInfo{}: of its fields, the symbol (a string)
\* and the regular market price (a *PriceValue).
ZeroTickerInfo == [Symbol |-> "", RegularMarketPrice |-> Nil]

InitExtract ==
    /\ statements = ZeroStatements
    /\ dividendResult = ZeroDividendResult
    /\ result = ZeroResult
    /\ ratios = ZeroRatios
    /\ nvals = 0
    /\ xpc = "input"
    /\ resultArray = "entries"
    /\ returned = NotReturned

\* json decoding meets a module that is an object: the pointer is set.
DecodeModule(m) ==
    /\ xpc = "input"
    /\ resultArray = "entries"
    /\ ~result[m].present
    /\ result' = [result EXCEPT ![m].present = TRUE]
    /\ UNCHANGED <<ratios, nvals, xpc>>
    /\ UNCHANGED notExtract

\* json decoding meets a field of a module that holds a value.
DecodeField(m, f, v) ==
    /\ xpc = "input"
    /\ result[m].present
    /\ result[m].v[f] = Nil
    /\ nvals < MaxFields
    /\ result' = [result EXCEPT ![m].v[f] = v]
    /\ nvals' = nvals + 1
    /\ UNCHANGED <<ratios, xpc>>
    /\ UNCHANGED notExtract

\* extractFinancialRatios, lines 108-114: the summaryDetail block.
ratiosFromSummaryDetail(r, sd) ==
    IF sd.present
      THEN [r EXCEPT !.PriceToEarningsRatio = sd.v.TrailingPE,
                     !.PriceToBookRatio = sd.v.PriceToBook,
                     !.PriceToSalesRatio = sd.v.PriceToSalesTrailing12Months,
                     !.DividendRate = sd.v.DividendRate,
                     !.DividendYield = sd.v.DividendYield]
      ELSE r

\* A financialData block that copies every field financialData holds.
ratiosFromFinancialData_Every(r, fd) ==
    IF fd.present
      THEN [f \in FinancialRatiosFields |-> IF fd.v[f] # Nil THEN fd.v[f] ELSE r[f]]
      ELSE r

\* extractFinancialRatios, lines 117-132: the financialData block.
ratiosFromFinancialData(r, fd) ==
    IF fd.present
      THEN [r EXCEPT !.ReturnOnEquity = fd.v.ReturnOnEquity,
                     !.ReturnOnAssets = fd.v.ReturnOnAssets,
                     !.GrossMargins = fd.v.GrossMargins,
                     !.EbitdaMargins = fd.v.EbitdaMargins,
                     !.OperatingMargins = fd.v.OperatingMargins,
                     !.ProfitMargins = fd.v.ProfitMargins,
                     !.CurrentRatio = fd.v.CurrentRatio,
                     !.QuickRatio = fd.v.QuickRatio,
                     !.DebtToEquity = fd.v.DebtToEquity,
                     !.TotalDebtToCapital = fd.v.TotalDebtToCapital,
                     !.EarningsGrowth = fd.v.EarningsGrowth,
                     !.RevenueGrowth = fd.v.RevenueGrowth,
                     !.EarningsPerShare = fd.v.EarningsPerShare,
                     !.BookValuePerShare = fd.v.BookValuePerShare]
      ELSE r

\* A defaultKeyStatistics block without the nil guards: it overwrites.
ratiosFromKeyStatistics_Overwrite(r, ks) ==
    IF ks.present
      THEN [r EXCEPT !.PriceToEarningsRatio = ks.v.TrailingPE,
                     !.PriceToBookRatio = ks.v.PriceToBook]
      ELSE r

\* A defaultKeyStatistics block that wins over summaryDetail whenever it
\* holds a value.
ratiosFromKeyStatistics_Prefer(r, ks) ==
    IF ks.present
      THEN [r EXCEPT !.PriceToEarningsRatio =
                         IF ks.v.TrailingPE # Nil THEN ks.v.TrailingPE ELSE @,
                     !.PriceToBookRatio =
                         IF ks.v.PriceToBook # Nil THEN ks.v.PriceToBook ELSE @]
      ELSE r

\* extractFinancialRatios, lines 135-142: the defaultKeyStatistics block.
ratiosFromKeyStatistics(r, ks) ==
    IF ks.present
      THEN [r EXCEPT !.PriceToEarningsRatio =
                         IF @ = Nil THEN ks.v.TrailingPE ELSE @,
                     !.PriceToBookRatio =
                         IF @ = Nil THEN ks.v.PriceToBook ELSE @]
      ELSE r

\* extractFinancialRatios (ticker_utils.go:105-145): the three blocks in the
\* order of the code, from the zero value.
extractFinancialRatios(res) ==
    ratiosFromKeyStatistics(
        ratiosFromFinancialData(
            ratiosFromSummaryDetail(ZeroRatios, res.SummaryDetail),
            res.FinancialData),
        res.DefaultKeyStatistics)

\* The error values of the transport: the one c.client.Do returns, the one
\* http.NewRequest returns for a URL that does not parse (nothing is sent),
\* and the causes of a failed body read and of a failed json decoding.
TransportError == "<transport error>"
RequestError == "<request error>"
ReadError == "<read error>"
JSONError == "<json error>"

\* What Client.Get returns to a Fetch* function.
GetOutcomes == {"response", "transportError", "requestError"}

\* The states of a response body.
BodyStates == {"json", "malformed", "unreadable"}

\* The values of the top-level error field (an interface{}).
TopErrors == {"null", "object"}

\* An err that wraps the one Client.Get returned.
GetError_Wrapped ==
    "failed to get data: " \o (IF getOutcome = "requestError" THEN RequestError
                                                               ELSE TransportError)

\* The err a Fetch* function returns when Client.Get returned one: err itself.
GetError == IF getOutcome = "requestError" THEN RequestError ELSE TransportError

\* The data requests one call of Client.Get sends: one, unless the request
\* could not be built (part_001:163-167).
RequestsSent == IF getOutcome = "requestError" THEN 0 ELSE 1

\* The message each Fetch* function puts before the cause of a failed
\* decoding.
DecodeMessageOf ==
    [FetchInformation |-> "failed to decode info JSON: ",
     FetchHistoricalData |-> "failed to decode history data JSON response: ",
     FetchNews |-> "failed to decode news JSON response: ",
     FetchFinancialData |-> "failed to decode financial data JSON response: ",
     FetchFinancialRatios |-> "failed to decode financial ratios JSON response: ",
     FetchKeyStatistics |-> "failed to decode key statistics JSON response: ",
     FetchIncomeStatement |-> "failed to decode income statement JSON response: ",
     FetchBalanceSheet |-> "failed to decode balance sheet JSON response: ",
     FetchCashFlow |-> "failed to decode cash flow JSON response: ",
     FetchDividendInfo |-> "failed to decode dividend info JSON response: "]

\* The functions that read the whole body (io.ReadAll) before decoding it;
\* the others decode from the body as they read it.
ReadsBodyFirst == {"FetchInformation", "FetchNews"}

\* The err of a Fetch* function whose response body is unreadable or
\* malformed.
BodyError(op) ==
    IF bodyState = "unreadable"
      THEN IF op \in ReadsBodyFirst
             THEN "failed to read response body: " \o ReadError
             ELSE DecodeMessageOf[op] \o ReadError
      ELSE DecodeMessageOf[op] \o JSONError

\* The Fetch* function has a decoded response in hand.
Decoded == getOutcome = "response" /\ bodyState = "json"

\* A response arrived, readable and well-formed, with no error field.
InitWire ==
    /\ getOutcome = "response"
    /\ bodyState = "json"
    /\ topError = "null"
    /\ dataRequests = 0

\* A test that also takes an empty statement array for a missing result.
NoResult_EmptyArrays ==
    \/ resultArray # "entries"
    \/ \E h \in Histories : statements[h].present /\ statements[h].entries = <<>>

\* A test that takes an empty array for a result.
NoResult_NullOnly == resultArray = "null"

\* A test that also takes a response with an error field for a missing
\* result.
NoResult_OrTopError == resultArray # "entries" \/ topError # "null"

\* The test every Fetch* function makes after decoding:
\* len(response.QuoteSummary.Result) == 0, true of a null and of an empty
\* array.
NoResult == resultArray # "entries"

\* What a Fetch* function returns after decoding: with no result the zero
\* value beside an error that names the symbol, otherwise what the extractor
\* made of result[0], and no error.

FetchResult(op, zero, value, msg) ==
    IF getOutcome # "response"
      THEN [op |-> op, value |-> zero, err |-> GetError]
      ELSE IF bodyState # "json"
        THEN [op |-> op, value |-> zero, err |-> BodyError(op)]
        ELSE IF NoResult
          THEN [op |-> op, value |-> zero, err |-> msg]
          ELSE [op |-> op, value |-> value, err |-> NoError]

\* FetchFinancialRatios (ticker.go:297-326): with a result[0], it is
\* handed to extractFinancialRatios.
FetchFinancialRatios ==
    /\ xpc = "input"
    /\ ratios' = FetchResult("FetchFinancialRatios", ZeroRatios,
                             extractFinancialRatios(result),
                             "no financial ratios found for symbol: %s").value
    /\ returned' = FetchResult("FetchFinancialRatios", ZeroRatios,
                               extractFinancialRatios(result),
                               "no financial ratios found for symbol: %s")
    /\ xpc' = "done"
    /\ dataRequests' = dataRequests + RequestsSent
    /\ UNCHANGED <<result, nvals, resultArray, statements, dividendResult>>
    /\ UNCHANGED <<sessVars, newVars, chartVars, arrived>>

\* ------------------------------------------------- the Fetch* entry points

\* json decoding finds the top-level result array null or empty: there is
\* no result[0] and nothing else is decoded.
DecodeNoResult(a) ==
    /\ xpc = "input"
    /\ resultArray = "entries"
    /\ result = ZeroResult
    /\ statements = ZeroStatements
    /\ dividendResult = ZeroDividendResult
    /\ infoResult = ZeroTickerInfo
    /\ resultArray' = a
    /\ UNCHANGED <<result, xpc, returned, statements, dividendResult>>
    /\ UNCHANGED notFetch

\* The values MaxAge can decode to besides the zero value.
MaxAges == {1}

\* json decoding meets defaultKeyStatistics.maxAge.
DecodeMaxAge(n) ==
    /\ xpc = "input"
    /\ result.DefaultKeyStatistics.present
    /\ result.DefaultKeyStatistics.MaxAge = 0
    /\ result' = [result EXCEPT !.DefaultKeyStatistics.MaxAge = n]
    /\ UNCHANGED <<xpc, resultArray, returned, statements, dividendResult>>
    /\ UNCHANGED notFetch

\* The zero value FinancialSummary{} (ticker_utils.go:191).
ZeroSummary == [MaxAge |-> 0, v |-> [f \in FinancialSummaryFields |-> Nil]]

\* The fields extractFinancialSummary fills from summaryDetail.
SummaryDetailFills ==
    {"MarketCap", "ForwardPE", "TrailingPE", "PriceToSalesTrailing12Months",
     "PriceToBook", "Beta"}

\* extractFinancialSummary, lines 194-196: summary = *defaultKeyStatistics.
summaryFromKeyStatistics(ks) ==
    IF ks.present THEN [MaxAge |-> ks.MaxAge, v |-> ks.v] ELSE ZeroSummary

\* A summaryDetail block without the nil guards: it overwrites.
summaryFromSummaryDetail_Overwrite(summary, sd) ==
    IF sd.present
      THEN [summary EXCEPT !.v = [f \in FinancialSummaryFields |->
                IF f \in SummaryDetailFills THEN sd.v[f] ELSE summary.v[f]]]
      ELSE summary

\* extractFinancialSummary, lines 199-218: the summaryDetail block fills the
\* six fields that are still nil.
summaryFromSummaryDetail(summary, sd) ==
    IF sd.present
      THEN [summary EXCEPT !.v = [f \in FinancialSummaryFields |->
                IF f \in SummaryDetailFills /\ summary.v[f] = Nil
                  THEN sd.v[f] ELSE summary.v[f]]]
      ELSE summary

\* extractFinancialSummary (ticker_utils.go:191-221).
extractFinancialSummary(res) ==
    summaryFromSummaryDetail(summaryFromKeyStatistics(res.DefaultKeyStatistics),
                             res.SummaryDetail)

\* FetchKeyStatistics (ticker.go:329-358).
FetchKeyStatistics ==
    /\ xpc = "input"
    /\ returned' = FetchResult("FetchKeyStatistics", ZeroSummary,
                               extractFinancialSummary(result),
                               "no key statistics found for symbol: %s")
    /\ xpc' = "done"
    /\ dataRequests' = dataRequests + RequestsSent
    /\ UNCHANGED decoded
    /\ UNCHANGED notReturned

\* json decoding meets a statement history module that is an object.
DecodeHistory(h) ==
    /\ xpc = "input"
    /\ resultArray = "entries"
    /\ ~statements[h].present
    /\ statements' = [statements EXCEPT ![h].present = TRUE]
    /\ UNCHANGED <<result, resultArray, dividendResult, xpc, returned>>
    /\ UNCHANGED notFetch

\* How many statement entries the response holds.
NumStatements ==
    Len(statements.IncomeStatementHistory.entries)
      + Len(statements.BalanceSheetHistory.entries)
      + Len(statements.CashflowStatementHistory.entries)

\* json decoding meets one more entry of a statement array.
DecodeStatement(h) ==
    /\ xpc = "input"
    /\ statements[h].present
    /\ NumStatements < MaxStatements
    /\ statements' = [statements EXCEPT
          ![h].entries = Append(@, [f \in StatementFields(h) |-> Nil])]
    /\ UNCHANGED <<result, resultArray, dividendResult, xpc, returned>>
    /\ UNCHANGED notFetch

\* json decoding meets a field of a statement entry that holds a value.
DecodeStatementField(h, i, f, v) ==
    /\ xpc = "input"
    /\ i \in DOMAIN statements[h].entries
    /\ statements[h].entries[i][f] = Nil
    /\ nvals < MaxFields
    /\ statements' = [statements EXCEPT ![h].entries[i][f] = v]
    /\ nvals' = nvals + 1
    /\ UNCHANGED <<result, resultArray, dividendResult, xpc, returned>>
    /\ UNCHANGED <<sessVars, newVars, ratios, chartVars, wireVars>>

\* The zero values IncomeStatement{}, BalanceSheet{} and CashFlow{}
\* (part_000:236-264).
ZeroIncomeStatement ==
    [f \in {"TotalRevenue", "GrossProfit", "OperatingIncome", "NetIncome",
            "Ebitda", "EarningsPerShare", "DilutedEPS"} |-> Nil]

ZeroBalanceSheet ==
    [f \in {"TotalAssets", "TotalLiabilities", "TotalEquity", "TotalDebt",
            "Cash", "ShortTermDebt", "LongTermDebt", "BookValuePerShare"} |-> Nil]

ZeroCashFlow ==
    [f \in {"OperatingCashFlow", "FreeCashFlow", "CapitalExpenditures",
            "DividendsPaid"} |-> Nil]

\* The guard of the three statement extractors (lines 269, 333, 397): the
\* module is there and its array holds an entry.
hasStatement(h) == h.present /\ Len(h.entries) > 0

\* A reading of the array that takes its last entry.
latestStatement_Last(h) == h.entries[Len(h.entries)]

\* latest := ...[0] (lines 271, 335, 399): the first entry of the array.
latestStatement(h) == h.entries[1]

\* extractIncomeStatement (ticker_utils.go:267-285).
extractIncomeStatement(res, st) ==
    LET h == st.IncomeStatementHistory
        income ==
          IF hasStatement(h)
            THEN [ZeroIncomeStatement EXCEPT
                    !.TotalRevenue = latestStatement(h).TotalRevenue,
                    !.GrossProfit = latestStatement(h).GrossProfit,
                    !.OperatingIncome = latestStatement(h).OperatingIncome,
                    !.NetIncome = latestStatement(h).NetIncome,
                    !.Ebitda = latestStatement(h).Ebitda]
            ELSE ZeroIncomeStatement
    IN  IF res.FinancialData.present
          THEN [income EXCEPT
                  !.EarningsPerShare = res.FinancialData.v.EarningsPerShare]
          ELSE income

\* extractBalanceSheet (ticker_utils.go:331-349).
extractBalanceSheet(res, st) ==
    LET h == st.BalanceSheetHistory
        balance ==
          IF hasStatement(h)
            THEN [ZeroBalanceSheet EXCEPT
                    !.TotalAssets = latestStatement(h).TotalAssets,
                    !.TotalLiabilities = latestStatement(h).TotalLiab,
                    !.TotalEquity = latestStatement(h).TotalStockholderEquity,
                    !.TotalDebt = latestStatement(h).TotalDebt,
                    !.Cash = latestStatement(h).Cash]
            ELSE ZeroBalanceSheet
    IN  IF res.FinancialData.present
          THEN [balance EXCEPT
                  !.BookValuePerShare = res.FinancialData.v.BookValuePerShare]
          ELSE balance

\* extractCashFlow (ticker_utils.go:395-407).
extractCashFlow(res, st) ==
    LET h == st.CashflowStatementHistory
    IN  IF hasStatement(h)
          THEN [ZeroCashFlow EXCEPT
                  !.OperatingCashFlow =
                      latestStatement(h).TotalCashFromOperatingActivities,
                  !.CapitalExpenditures = latestStatement(h).CapitalExpenditures,
                  !.FreeCashFlow = latestStatement(h).FreeCashFlow,
                  !.DividendsPaid = latestStatement(h).DividendsPaid]
          ELSE ZeroCashFlow

\* FetchIncomeStatement (ticker.go:361-390).
FetchIncomeStatement ==
    /\ xpc = "input"
    /\ returned' = FetchResult("FetchIncomeStatement", ZeroIncomeStatement,
                               extractIncomeStatement(result, statements),
                               "no income statement found for symbol: %s")
    /\ xpc' = "done"
    /\ dataRequests' = dataRequests + RequestsSent
    /\ UNCHANGED decoded
    /\ UNCHANGED notReturned

\* FetchBalanceSheet (ticker.go:393-422).
FetchBalanceSheet ==
    /\ xpc = "input"
    /\ returned' = FetchResult("FetchBalanceSheet", ZeroBalanceSheet,
                               extractBalanceSheet(result, statements),
                               "no balance sheet found for symbol: %s")
    /\ xpc' = "done"
    /\ dataRequests' = dataRequests + RequestsSent
    /\ UNCHANGED decoded
    /\ UNCHANGED notReturned

\* FetchCashFlow (ticker.go:425-454).
FetchCashFlow ==
    /\ xpc = "input"
    /\ returned' = FetchResult("FetchCashFlow", ZeroCashFlow,
                               extractCashFlow(result, statements),
                               "no cash flow found for symbol: %s")
    /\ xpc' = "done"
    /\ dataRequests' = dataRequests + RequestsSent
    /\ UNCHANGED decoded
    /\ UNCHANGED notReturned

\* json decoding, in FetchDividendInfo, meets summaryDetail or
\* defaultKeyStatistics as an object.
DecodeDividendModule(m) ==
    /\ xpc = "input"
    /\ resultArray = "entries"
    /\ ~dividendResult[m].present
    /\ dividendResult' = [dividendResult EXCEPT ![m].present = TRUE]
    /\ UNCHANGED <<result, resultArray, statements, xpc, returned>>
    /\ UNCHANGED notFetch

\* json decoding, in FetchDividendInfo, meets a field that holds a value.
DecodeDividendField(m, f, v) ==
    /\ xpc = "input"
    /\ dividendResult[m].present
    /\ dividendResult[m].v[f] = Nil
    /\ nvals < MaxFields
    /\ dividendResult' = [dividendResult EXCEPT ![m].v[f] = v]
    /\ nvals' = nvals + 1
    /\ UNCHANGED <<result, resultArray, statements, xpc, returned>>
    /\ UNCHANGED <<sessVars, newVars, ratios, chartVars, wireVars>>

\* The zero value DividendInfo{} (ticker.go:458-466).
ZeroDividendInfo ==
    [f \in {"DividendRate", "DividendYield", "DividendsPaid", "PayoutRatio",
            "ExDividendDate", "DividendDate", "FiveYearAvgDividendYield"} |-> Nil]

\* extractDividendInfo, lines 470-477: the summaryDetail block.
dividendFromSummaryDetail(d, sd) ==
    IF sd.present
      THEN [d EXCEPT !.DividendRate = sd.v.DividendRate,
                     !.DividendYield = sd.v.DividendYield,
                     !.ExDividendDate = sd.v.ExDividendDate,
                     !.DividendDate = sd.v.DividendDate,
                     !.PayoutRatio = sd.v.PayoutRatio,
                     !.FiveYearAvgDividendYield = sd.v.FiveYearAvgDividendYield]
      ELSE d

\* A defaultKeyStatistics block that wins whenever it holds a value.
dividendFromKeyStatistics_Prefer(d, ks) ==
    IF ks.present
      THEN [d EXCEPT
              !.DividendRate = IF ks.v.DividendRate # Nil
                                 THEN ks.v.DividendRate ELSE @,
              !.DividendYield = IF ks.v.DividendYield # Nil
                                  THEN ks.v.DividendYield ELSE @,
              !.PayoutRatio = IF ks.v.PayoutRatio # Nil
                                THEN ks.v.PayoutRatio ELSE @,
              !.FiveYearAvgDividendYield =
                  IF ks.v.FiveYearAvgDividendYield # Nil
                    THEN ks.v.FiveYearAvgDividendYield ELSE @]
      ELSE d

\* extractDividendInfo, lines 480-493: the defaultKeyStatistics block fills
\* the four fields that are still nil.
dividendFromKeyStatistics(d, ks) ==
    IF ks.present
      THEN [d EXCEPT
              !.DividendRate = IF @ = Nil THEN ks.v.DividendRate ELSE @,
              !.DividendYield = IF @ = Nil THEN ks.v.DividendYield ELSE @,
              !.PayoutRatio = IF @ = Nil THEN ks.v.PayoutRatio ELSE @,
              !.FiveYearAvgDividendYield =
                  IF @ = Nil THEN ks.v.FiveYearAvgDividendYield ELSE @]
      ELSE d

\* extractDividendInfo, lines 496-500: dividends paid, from entry 0 of the
\* cash flow statements.
dividendFromCashFlow(d, h) ==
    IF hasStatement(h)
      THEN [d EXCEPT !.DividendsPaid = latestStatement(h).DividendsPaid]
      ELSE d

\* extractDividendInfo (ticker_utils.go:467-503).
extractDividendInfo(dres, st) ==
    dividendFromCashFlow(
        dividendFromKeyStatistics(
            dividendFromSummaryDetail(ZeroDividendInfo, dres.SummaryDetail),
            dres.DefaultKeyStatistics),
        st.CashflowStatementHistory)

\* FetchDividendInfo (ticker.go:469-526).
FetchDividendInfo ==
    /\ xpc = "input"
    /\ returned' = FetchResult("FetchDividendInfo", ZeroDividendInfo,
                               extractDividendInfo(dividendResult, statements),
                               "no dividend info found for symbol: %s")
    /\ xpc' = "done"
    /\ dataRequests' = dataRequests + RequestsSent
    /\ UNCHANGED decoded
    /\ UNCHANGED notReturned

\* PriceValues by their Raw field: a negative number, zero and a positive
\* one.
RawValues == {"v-", "v0", "v+"}
Raw(v) == CASE v = "v-" -> 0 - 1
            [] v = "v0" -> 0
            [] OTHER -> 1

\* What the call of FetchDividendInfo inside a lookup returns.
DividendInfoResult ==
    FetchResult("FetchDividendInfo", ZeroDividendInfo,
                extractDividendInfo(dividendResult, statements),
                "no dividend info found for symbol: %s")

\* A test that also takes a Raw of 0 for a missing value.
notAvailable_OrZero(v) == v = Nil \/ Raw(v) = 0

\* FetchDividendRate, line 549, and FetchCurrentDividendYield, line 535:
\* the pointer is nil.
notAvailable(v) == v = Nil

\* FetchCurrentDividendYield, lines 530-539, and FetchDividendRate, lines
\* 544-553: the error of FetchDividendInfo as it is, or the Raw of the field,
\* or an error when the field is nil.
LookupResult(op, f, msg) ==
    IF DividendInfoResult.err # NoError
      THEN [op |-> op, value |-> 0, err |-> DividendInfoResult.err]
      ELSE IF notAvailable(DividendInfoResult.value[f])
        THEN [op |-> op, value |-> 0, err |-> msg]
        ELSE [op |-> op, value |-> Raw(DividendInfoResult.value[f]),
              err |-> NoError]

\* FetchCurrentDividendYield (ticker.go:529-540).
FetchCurrentDividendYield ==
    /\ xpc = "input"
    /\ returned' = LookupResult("FetchCurrentDividendYield", "DividendYield",
                                "dividend yield not available for symbol: %s")
    /\ xpc' = "done"
    /\ dataRequests' = dataRequests + RequestsSent
    /\ UNCHANGED decoded
    /\ UNCHANGED notReturned

\* FetchDividendRate (ticker.go:543-554).
FetchDividendRate ==
    /\ xpc = "input"
    /\ returned' = LookupResult("FetchDividendRate", "DividendRate",
                                "dividend rate not available for symbol: %s")
    /\ xpc' = "done"
    /\ dataRequests' = dataRequests + RequestsSent
    /\ UNCHANGED decoded
    /\ UNCHANGED notReturned

\* A test that takes any rate that is present for a paid dividend.
paysDividend_AnyRate(rate) == rate # Nil

\* IsDividendPaying, line 564: the rate is there and its Raw is positive.
paysDividend(rate) == rate # Nil /\ Raw(rate) > 0

\* IsDividendPaying (ticker.go:557-565).
IsDividendPaying ==
    /\ xpc = "input"
    /\ returned' =
         IF DividendInfoResult.err # NoError
           THEN [op |-> "IsDividendPaying", value |-> FALSE,
                 err |-> DividendInfoResult.err]
           ELSE [op |-> "IsDividendPaying",
                 value |-> paysDividend(DividendInfoResult.value.DividendRate),
                 err |-> NoError]
    /\ xpc' = "done"
    /\ dataRequests' = dataRequests + RequestsSent
    /\ UNCHANGED decoded
    /\ UNCHANGED notReturned

\* ------------------------------------------------------- the time series

\* Unix times around a midnight (UTC): 2023-11-14 23:59:59, 2023-11-15
\* 00:00:00 and 2023-11-15 09:30:00.
Timestamps == {1700006399, 1700006400, 1700040600}

\* n Unix times a day apart, 09:30:00 UTC from 2023-11-15 on: their dates
\* differ in every location of Locations.
DailyTimestamps(n) == [i \in 1..n |-> 1700040600 + 86400 * (i - 1)]

\* Offsets of time.Local from UTC, in seconds: UTC, -05:00 and +05:30.
Locations == {0, 0 - 18000, 19800}

\* The five parallel arrays of a quote block (part_000:144-150).
QuoteFields == {"Open", "High", "Low", "Close", "Volume"}

\* A JSON null in a quote array, and the number at position i of array f.
Null == <<"null", 0>>
QuoteValue(f, i) == <<f, i>>

\* A quote block whose arrays have the given lengths and no null.
QuoteOfLengths(len) == [f \in QuoteFields |-> [i \in 1..len[f] |-> QuoteValue(f, i)]]

\* A chart response with one result entry, and one with none.
ChartResponse(ts, quote) == [Result |-> << [Timestamp |-> ts, Quote |-> quote] >>]
NoChartResult == [Result |-> <<>>]

\* The timestamp arrays of up to MaxPoints points.
TimestampArrays == UNION {[1..n -> Timestamps] : n \in 0..MaxPoints}

\* Responses whose arrays are all as long as the timestamp array.
FullResponses ==
    {ChartResponse(ts, << QuoteOfLengths([f \in QuoteFields |-> Len(ts)]) >>) :
        ts \in TimestampArrays}

\* Responses with one null among full-length arrays.
NullResponses ==
    UNION {{ChartResponse(ts,
              << [QuoteOfLengths([g \in QuoteFields |-> Len(ts)])
                    EXCEPT ![f][i] = Null] >>) :
              f \in QuoteFields, i \in 1..Len(ts)} : ts \in TimestampArrays}

\* Responses whose arrays have any lengths up to MaxPoints, or that have no
\* quote block, with timestamps a day apart.
RaggedResponses ==
    UNION {{ChartResponse(DailyTimestamps(n), << QuoteOfLengths(len) >>) :
              len \in [QuoteFields -> 0..MaxPoints]}
           \cup {ChartResponse(DailyTimestamps(n), <<>>)} : n \in 0..MaxPoints}

\* The interval strings a caller passes.
Intervals == {"", "d", "1d", "5d", "1wk", "1mo", "3mo", "1m", "5m", "1h"}

\* strings.HasSuffix.
HasSuffix(str, suffix) ==
    /\ Len(str) >= Len(suffix)
    /\ SubSeq(str, Len(str) - Len(suffix) + 1, Len(str)) = suffix

\* A test that takes every interval ending in "m" for a daily one.
isDateInterval_AnyM(interval) ==
    HasSuffix(interval, "d") \/ HasSuffix(interval, "wk") \/ HasSuffix(interval, "m")

\* transformHistoricalData, line 420: the interval is in days, weeks or
\* months.
isDateInterval(interval) ==
    HasSuffix(interval, "d") \/ HasSuffix(interval, "wk") \/ HasSuffix(interval, "mo")

\* Two and four digits, zero padded, as time.Format writes them.
Pad2(n) == IF n < 10 THEN "0" \o ToString(n) ELSE ToString(n)
Pad4(n) == IF n < 1000 THEN "0" \o (IF n < 100 THEN "0" \o Pad2(n) ELSE ToString(n))
                       ELSE ToString(n)

\* The civil date of a day number (days since 1970-01-01), in the proleptic
\* Gregorian calendar, as time.Time computes it.
CivilDate(days) ==
    LET z == days + 719468
        era == z \div 146097
        doe == z - era * 146097
        yoe == (doe - doe \div 1460 + doe \div 36524 - doe \div 146096) \div 365
        doy == doe - (365 * yoe + yoe \div 4 - yoe \div 100)
        mp == (5 * doy + 2) \div 153
        d == doy - (153 * mp + 2) \div 5 + 1
        m == IF mp < 10 THEN mp + 3 ELSE mp - 9
        y == yoe + era * 400 + (IF m <= 2 THEN 1 ELSE 0)
    IN  [year |-> y, month |-> m, day |-> d]

\* time.Unix(timestamp, 0).Format("2006-01-02"), in the local time zone.
FormatDate(timestamp, loc) ==
    LET c == CivilDate((timestamp + loc) \div 86400)
    IN  Pad4(c.year) \o "-" \o Pad2(c.month) \o "-" \o Pad2(c.day)

\* time.Unix(timestamp, 0).Format("2006-01-02 15:04:05").
FormatDateTime(timestamp, loc) ==
    LET sec == (timestamp + loc) % 86400
    IN  FormatDate(timestamp, loc) \o " " \o Pad2(sec \div 3600) \o ":"
          \o Pad2((sec % 3600) \div 60) \o ":" \o Pad2(sec % 60)

\* transformHistoricalData, lines 418-424: the key of a timestamp.
FormatKey(timestamp, interval, loc) ==
    IF isDateInterval(interval)
      THEN FormatDate(timestamp, loc)
      ELSE FormatDateTime(timestamp, loc)

\* A nil map, and the map make(map[string]PriceData) returns (line 411).
NilMap == [isNil |-> TRUE, entries |-> [k \in {} |-> Null]]
makeMap_Nil == [isNil |-> TRUE, entries |-> [k \in {} |-> Null]]
makeMap == [isNil |-> FALSE, entries |-> [k \in {} |-> Null]]

\* A bounds test that stops one position early.
inBounds_Short(i, array) == i < Len(array)

\* i < len(array) (line 431), for the position i counted from 1.
inBounds(i, array) == i <= Len(array)

\* transformHistoricalData, lines 427-432: position i has a record.
included(r, i) ==
    /\ Len(r.Quote) > 0
    /\ \A f \in {"Open", "High", "Low", "Close", "Volume"} :
          inBounds(i, r.Quote[1][f])

\* An assignment that keeps what the map already holds under the key.
mapAssign_KeepFirst(d, key, value) ==
    [d EXCEPT !.entries = [k \in DOMAIN d.entries \cup {key} |->
                             IF k \in DOMAIN d.entries THEN d.entries[k] ELSE value]]

\* d[key] = value (line 432).
mapAssign(d, key, value) ==
    [d EXCEPT !.entries = [k \in DOMAIN d.entries \cup {key} |->
                             IF k = key THEN value ELSE d.entries[k]]]

\* The PriceData of position i (lines 432-438).
PriceDataAt(quote, i) ==
    [Open |-> quote.Open[i], High |-> quote.High[i], Low |-> quote.Low[i],
     Close |-> quote.Close[i], Volume |-> quote.Volume[i]]

\* transformHistoricalData, lines 416-441: the loop over the timestamps,
\* from position i on.
RECURSIVE transformFrom(_, _, _, _, _)
transformFrom(d, r, i, interval, loc) ==
    IF i > Len(r.Timestamp)
      THEN d
      ELSE transformFrom(
             IF included(r, i)
               THEN mapAssign(d, FormatKey(r.Timestamp[i], interval, loc),
                              PriceDataAt(r.Quote[1], i))
               ELSE d,
             r, i + 1, interval, loc)

\* transformHistoricalData (ticker_utils.go:410-443).
transformHistoricalData(data, interval, loc) ==
    IF Len(data.Result) = 0
      THEN makeMap
      ELSE transformFrom(makeMap, data.Result[1], 1, interval, loc)

\* A call of transformHistoricalData on the decoded response.
CallTransformHistoricalData(interval) ==
    /\ xpc = "input"
    /\ returned' = [op |-> "transformHistoricalData",
                    value |-> transformHistoricalData(historyResponse, interval,
                                                      location),
                    err |-> NoError, interval |-> interval]
    /\ xpc' = "done"
    /\ UNCHANGED <<historyResponse, location, sent, query, setDefaults, infoResult>>
    /\ UNCHANGED notChart

\* json decoding meets result[0].price: a symbol, and a regular market
\* price or none.
DecodePrice(v) ==
    /\ xpc = "input"
    /\ resultArray = "entries"
    /\ infoResult = ZeroTickerInfo
    /\ infoResult' = [Symbol |-> "SYM", RegularMarketPrice |-> v]
    /\ UNCHANGED <<historyResponse, location, sent, query, setDefaults>>
    /\ UNCHANGED <<xpc, returned>>
    /\ UNCHANGED notChart

\* FetchInformation (ticker.go:41-84).
FetchInformation ==
    /\ xpc = "input"
    /\ returned' = FetchResult("FetchInformation", ZeroTickerInfo, infoResult,
                               "no info found for symbol: %s")
    /\ xpc' = "done"
    /\ dataRequests' = dataRequests + RequestsSent
    /\ UNCHANGED decoded
    /\ UNCHANGED notReturned

\* The zero value PriceValue{}.
ZeroPriceValue == "PriceValue{}"

\* What the call of FetchInformation inside FetchPriceValue returns.
InformationResult ==
    FetchResult("FetchInformation", ZeroTickerInfo, infoResult,
                "no info found for symbol: %s")

\* FetchPriceValue (ticker.go:87-101).
FetchPriceValue ==
    /\ xpc = "input"
    /\ returned' =
         IF InformationResult.err # NoError
           THEN [op |-> "FetchPriceValue", value |-> ZeroPriceValue,
                 err |-> InformationResult.err]
           ELSE IF InformationResult.value.RegularMarketPrice # Nil
             THEN [op |-> "FetchPriceValue",
                   value |-> InformationResult.value.RegularMarketPrice,
                   err |-> NoError]
             ELSE [op |-> "FetchPriceValue", value |-> ZeroPriceValue,
                   err |-> "regular market price not available for symbol: %s"]
    /\ xpc' = "done"
    /\ dataRequests' = dataRequests + RequestsSent
    /\ UNCHANGED decoded
    /\ UNCHANGED notReturned

\* The zero value FinancialData{}.
ZeroFinancialData ==
    [Ratios |-> ZeroRatios, Summary |-> ZeroSummary,
     IncomeStatement |-> ZeroIncomeStatement, BalanceSheet |-> ZeroBalanceSheet,
     CashFlow |-> ZeroCashFlow]

\* transformFinancialData (ticker_utils.go:52-58).
transformFinancialData(res, st) ==
    [Ratios |-> extractFinancialRatios(res),
     Summary |-> extractFinancialSummary(res),
     IncomeStatement |-> extractIncomeStatement(res, st),
     BalanceSheet |-> extractBalanceSheet(res, st),
     CashFlow |-> extractCashFlow(res, st)]

\* FetchFinancialData (ticker.go:258-294).
FetchFinancialData ==
    /\ xpc = "input"
    /\ returned' = FetchResult("FetchFinancialData", ZeroFinancialData,
                               transformFinancialData(result, statements),
                               "no financial data found for symbol: %s")
    /\ xpc' = "done"
    /\ dataRequests' = dataRequests + RequestsSent
    /\ UNCHANGED decoded
    /\ UNCHANGED notReturned

\* The strings a caller passes for the range and for period1 and period2.
Ranges == {"", "5d"}
Periods == {"", "1700006400"}

\* A test that also takes a chart without timestamps for a missing result.
NoChart_NoTimestamps ==
    \/ Len(historyResponse.Result) = 0
    \/ Len(historyResponse.Result[1].Timestamp) = 0

\* FetchHistoricalData, line 154: len(historyResponse.Chart.Result) == 0.
NoChart == Len(historyResponse.Result) = 0

\* A default that leaves the caller's empty string.
orDefault_Keep(value, default) == value

\* FetchHistoricalData, lines 112-117: an empty argument takes its default.
orDefault(value, default) == IF value = "" THEN default ELSE value

\* FetchHistoricalData, lines 120-129: the parameters of the request.
historyParams(rangeParam, interval, period1, period2) ==
    [k \in {"range", "interval"}
             \cup (IF period1 # "" THEN {"period1"} ELSE {})
             \cup (IF period2 # "" THEN {"period2"} ELSE {}) |->
        CASE k = "range" -> rangeParam
          [] k = "interval" -> interval
          [] k = "period1" -> period1
          [] k = "period2" -> period2]

\* FetchHistoricalData, lines 135-159: what it returns for the outcome of
\* its request, given the interval it sent.
HistoryResult(interval) ==
    IF getOutcome # "response"
      THEN [value |-> NilMap, err |-> GetError]
      ELSE IF bodyState # "json"
        THEN [value |-> NilMap, err |-> BodyError("FetchHistoricalData")]
        ELSE IF NoChart
          THEN [value |-> NilMap, err |-> "no data found for symbol: %s"]
          ELSE [value |-> transformHistoricalData(historyResponse, interval,
                                                  location),
                err |-> NoError]

\* FetchHistoricalData (ticker.go:110-160): the defaults, the request, and
\* the decoded response handed to transformHistoricalData with the
\* interval that was sent.
FetchHistoricalData(rangeParam, interval, period1, period2) ==
    /\ xpc = "input"
    /\ sent' = historyParams(orDefault(rangeParam, "1y"),
                             orDefault(interval, "1d"), period1, period2)
    /\ returned' =
         [op |-> "FetchHistoricalData",
          value |-> HistoryResult(orDefault(interval, "1d")).value,
          err |-> HistoryResult(orDefault(interval, "1d")).err,
          interval |-> interval, rangeParam |-> rangeParam,
          period1 |-> period1, period2 |-> period2]
    /\ xpc' = "done"
    /\ dataRequests' = dataRequests + RequestsSent
    /\ UNCHANGED <<historyResponse, location, query, setDefaults, infoResult>>
    /\ UNCHANGED <<sessVars, newVars, result, ratios, nvals, resultArray,
                   statements, dividendResult, arrived>>

\* The Query values a caller builds.
Queries ==
    [Range : Ranges, Interval : {"", "1h"}, Start : {""}, End : Periods]

\* A SetDefault that overwrites the interval the caller set.
SetDefault_Overwrite(q) ==
    [q EXCEPT !.Interval = "1d", !.Range = IF q.Range = "" THEN "1y" ELSE q.Range]

\* Query.SetDefault (part_000:84-91).
SetDefault(q) ==
    [q EXCEPT !.Interval = IF q.Interval = "" THEN "1d" ELSE q.Interval,
              !.Range = IF q.Range = "" THEN "1y" ELSE q.Range]

\* A call q.SetDefault() on the Query.
QuerySetDefault ==
    /\ setDefaults < MaxSetDefaults
    /\ query' = SetDefault(query)
    /\ setDefaults' = setDefaults + 1
    /\ UNCHANGED <<historyResponse, location, sent, infoResult>>
    /\ UNCHANGED <<xpc, returned>>
    /\ UNCHANGED notChart

\* ------------------------------------------------------------- the news

\* The integers a caller passes for count and start.
Counts == {0 - 2147483647, 0 - 1, 0, 1, 10, 2147483647}

\* What the body of a search response holds when it is well-formed: a news
\* array at the top level, or a top-level news of another type beside an
\* array under result.news.
NewsShapes == {"news", "result.news"}

\* A nil slice of NewsItem.
NilNews == "nil"

\* A default that lets a count of 0 through.
countOrDefault_Negative(count) == IF count < 0 THEN 10 ELSE count

\* FetchNews, lines 170-172.
countOrDefault(count) == IF count <= 0 THEN 10 ELSE count

\* FetchNews, lines 173-175.
startOrDefault(start) == IF start < 0 THEN 0 ELSE start

\* FetchNews, lines 178-183: the parameters of the request, the integers
\* written in decimal.
newsParams(count, start) ==
    [symbols |-> "%s", count |-> ToString(count), start |-> ToString(start),
     region |-> "US", lang |-> "en-US"]

\* FetchNews, lines 189-225: what it returns for the outcome of its request.
NewsResult(shape) ==
    IF getOutcome # "response"
      THEN [value |-> NilNews, err |-> GetError]
      ELSE IF bodyState # "json"
        THEN [value |-> NilNews, err |-> BodyError("FetchNews")]
        ELSE [value |-> <<shape, "items">>, err |-> NoError]

\* FetchNews (ticker.go:168-226).  Its endpoint is a fixed URL, so the
\* request can always be built.
FetchNews(count, start, shape) ==
    /\ xpc = "input"
    /\ getOutcome # "requestError"
    /\ sent' = newsParams(countOrDefault(count), startOrDefault(start))
    /\ returned' = [op |-> "FetchNews", value |-> NewsResult(shape).value,
                    err |-> NewsResult(shape).err,
                    count |-> count, start |-> start]
    /\ xpc' = "done"
    /\ dataRequests' = dataRequests + 1
    /\ UNCHANGED <<historyResponse, location, query, setDefaults, infoResult>>
    /\ UNCHANGED <<sessVars, newVars, result, ratios, nvals, resultArray,
                   statements, dividendResult, arrived>>

\* FetchNewsAlternative (ticker.go:230-254): the err of Client.Get, or an
\* empty slice whatever the response holds; the body is not read.
FetchNewsAlternative ==
    /\ xpc = "input"
    /\ returned' =
         IF getOutcome # "response"
           THEN [op |-> "FetchNewsAlternative", value |-> NilNews, err |-> GetError]
           ELSE [op |-> "FetchNewsAlternative", value |-> <<>>, err |-> NoError]
    /\ xpc' = "done"
    /\ dataRequests' = dataRequests + RequestsSent
    /\ UNCHANGED <<historyResponse, location, sent, query, setDefaults, infoResult>>
    /\ UNCHANGED <<sessVars, newVars, result, ratios, nvals, resultArray,
                   statements, dividendResult, arrived>>

\* No chart decoded, no parameters sent, a zero Query.
NotSent == [k \in {} |-> ""]
InitChart ==
    /\ historyResponse = NoChartResult
    /\ location = 0
    /\ sent = NotSent
    /\ query = [Range |-> "", Interval |-> "", Start |-> "", End |-> ""]
    /\ setDefaults = 0
    /\ infoResult = ZeroTickerInfo

\* ------------------------------------------------------- specifications

\* Any number of goroutines inside Client.Get at once.
Init == InitSession /\ InitConstructed /\ InitExtract /\ InitWire /\ InitChart
Next == \E p \in Callers : Get(p) \/ Step(p)
Spec == Init /\ [][Next]_vars

\* The same, with every goroutine that is inside Get scheduled again and
\* every transport call (c.client.Do, line 183) returning: a step a
\* goroutine can take is taken.
SpecLive == Init /\ [][Next]_vars /\ \A p \in Callers : WF_vars(Step(p))

\* Calls that do not overlap: a call starts only when no call is running.
SeqGet(p) == (\A q \in Callers : pc[q] = "idle") /\ Get(p)
NextSeq == \E p \in Callers : SeqGet(p) \/ Step(p)
SpecSeq == Init /\ [][NextSeq]_vars

\* Goroutines constructing clients and tickers, from the untouched package.
InitPackage == InitSession /\ InitNew /\ InitExtract /\ InitWire /\ InitChart
NextNew == \E p \in Callers : NewStep(p)
SpecNew == InitPackage /\ [][NextNew]_vars

\* Every decoded result of up to MaxFields values, handed to
\* extractFinancialRatios.
NextRatios ==
    \/ \E m \in Modules : DecodeModule(m)
    \/ \E m \in Modules : \E f \in FieldsOf(m) : \E v \in PriceValues :
         DecodeField(m, f, v)
    \/ FetchFinancialRatios
SpecRatios == Init /\ [][NextRatios]_vars

\* Every decoded response, with or without a result[0], handed to
\* FetchKeyStatistics.
NextSummary ==
    \/ \E a \in {"null", "empty"} : DecodeNoResult(a)
    \/ \E m \in Modules : DecodeModule(m)
    \/ \E m \in Modules : \E f \in FieldsOf(m) : \E v \in PriceValues :
         DecodeField(m, f, v)
    \/ \E n \in MaxAges : DecodeMaxAge(n)
    \/ FetchKeyStatistics
SpecSummary == Init /\ [][NextSummary]_vars

\* Every decoded response of up to MaxStatements statement entries, with
\* or without financialData, handed to the three statement functions.
NextStatements ==
    \/ \E a \in {"null", "empty"} : DecodeNoResult(a)
    \/ \E h \in Histories : DecodeHistory(h)
    \/ \E h \in Histories : DecodeStatement(h)
    \/ \E h \in Histories : \E i \in 1..MaxStatements :
         \E f \in StatementFields(h) \ {"EndDate"} : \E v \in PriceValues :
           DecodeStatementField(h, i, f, v)
    \/ DecodeModule("FinancialData")
    \/ \E f \in {"EarningsPerShare", "BookValuePerShare"} : \E v \in PriceValues :
         DecodeField("FinancialData", f, v)
    \/ FetchIncomeStatement
    \/ FetchBalanceSheet
    \/ FetchCashFlow
SpecStatements == Init /\ [][NextStatements]_vars

\* Every decoded response of up to MaxFields values in its modules and in
\* its income and balance sheet statements, handed to the four functions
\* that normalise them.
UnfilledHistories == {"IncomeStatementHistory", "BalanceSheetHistory"}

\* The fields decoded here: of financialData the three no block reads and
\* three that are read, of the other two modules the fields both hold and
\* one only defaultKeyStatistics holds, of the statements two each.
UnfilledInputs(m) ==
    CASE m = "FinancialData" ->
           {"PriceToEbitda", "EnterpriseToRevenue", "EnterpriseToEbitda",
            "ReturnOnEquity", "EarningsPerShare", "BookValuePerShare"}
      [] m = "SummaryDetail" -> {"MarketCap", "TrailingPE", "PriceToBook"}
      [] m = "DefaultKeyStatistics" ->
           {"MarketCap", "TrailingPE", "PriceToBook", "EnterpriseValue"}
      [] m = "IncomeStatementHistory" -> {"NetIncome", "Ebitda"}
      [] m = "BalanceSheetHistory" -> {"TotalDebt", "Cash"}
NextUnfilled ==
    \/ \E m \in Modules : DecodeModule(m)
    \/ \E m \in Modules : \E f \in UnfilledInputs(m) : \E v \in PriceValues :
         DecodeField(m, f, v)
    \/ \E h \in UnfilledHistories : DecodeHistory(h)
    \/ \E h \in UnfilledHistories : DecodeStatement(h)
    \/ \E h \in UnfilledHistories : \E i \in 1..MaxStatements :
         \E f \in UnfilledInputs(h) : \E v \in PriceValues :
           DecodeStatementField(h, i, f, v)
    \/ FetchFinancialRatios
    \/ FetchKeyStatistics
    \/ FetchIncomeStatement
    \/ FetchBalanceSheet
SpecUnfilled == Init /\ [][NextUnfilled]_vars

\* Every decoded response of up to MaxFields dividend values and up to
\* MaxStatements cash flow statements, handed to FetchDividendInfo.
NextDividend ==
    \/ \E a \in {"null", "empty"} : DecodeNoResult(a)
    \/ \E m \in DividendModules : DecodeDividendModule(m)
    \/ \E m \in DividendModules : \E f \in DividendFieldsOf(m) :
         \E v \in PriceValues : DecodeDividendField(m, f, v)
    \/ DecodeHistory("CashflowStatementHistory")
    \/ DecodeStatement("CashflowStatementHistory")
    \/ \E i \in 1..MaxStatements : \E v \in PriceValues :
         DecodeStatementField("CashflowStatementHistory", i, "DividendsPaid", v)
    \/ FetchDividendInfo
SpecDividend == Init /\ [][NextDividend]_vars

\* Every chart response of up to MaxPoints points, in every location,
\* handed to transformHistoricalData with every interval.
InitTransform ==
    /\ InitSession /\ InitConstructed /\ InitExtract /\ InitWire
    /\ historyResponse \in {NoChartResult} \cup FullResponses \cup NullResponses
                              \cup RaggedResponses
    /\ location \in Locations
    /\ sent = NotSent
    /\ query = [Range |-> "", Interval |-> "", Start |-> "", End |-> ""]
    /\ setDefaults = 0
    /\ infoResult = ZeroTickerInfo
NextTransform == \E interval \in Intervals : CallTransformHistoricalData(interval)
SpecTransform == InitTransform /\ [][NextTransform]_vars

\* Every decoded response, with or without a result[0], handed to every
\* Fetch* function.
InitFetch ==
    /\ InitSession /\ InitConstructed /\ InitExtract /\ InitWire
    /\ historyResponse \in
         {NoChartResult}
         \cup {ChartResponse(DailyTimestamps(n),
                 << QuoteOfLengths([f \in QuoteFields |-> n]) >>) :
                 n \in 0..MaxPoints}
    /\ location = 0
    /\ sent = NotSent
    /\ query = [Range |-> "", Interval |-> "", Start |-> "", End |-> ""]
    /\ setDefaults = 0
    /\ infoResult = ZeroTickerInfo
NextFetch ==
    \/ \E a \in {"null", "empty"} : DecodeNoResult(a)
    \/ \E m \in Modules : DecodeModule(m)
    \/ \E h \in Histories : DecodeHistory(h)
    \/ \E m \in DividendModules : DecodeDividendModule(m)
    \/ \E v \in PriceValues \cup {Nil} : DecodePrice(v)
    \/ FetchInformation
    \/ \E rangeParam \in Ranges : \E interval \in {"", "1h"} :
         FetchHistoricalData(rangeParam, interval, "", "")
    \/ FetchFinancialData
    \/ FetchFinancialRatios
    \/ FetchKeyStatistics
    \/ FetchIncomeStatement
    \/ FetchBalanceSheet
    \/ FetchCashFlow
    \/ FetchDividendInfo
SpecFetch == InitFetch /\ [][NextFetch]_vars

\* Every chart response with full arrays, in every location, fetched with
\* every combination of arguments; every Query, given its defaults.
InitHistory ==
    /\ InitSession /\ InitConstructed /\ InitExtract /\ InitWire
    /\ historyResponse \in {NoChartResult} \cup FullResponses
    /\ location \in Locations
    /\ sent = NotSent
    /\ query \in Queries
    /\ setDefaults = 0
    /\ infoResult = ZeroTickerInfo
NextHistory ==
    \/ \E rangeParam \in Ranges : \E interval \in Intervals :
         \E period1, period2 \in Periods :
           FetchHistoricalData(rangeParam, interval, period1, period2)
    \/ QuerySetDefault
SpecHistory == InitHistory /\ [][NextHistory]_vars

\* Every outcome of the request, and every count and start, of a FetchNews
\* call.
InitNews ==
    /\ InitSession /\ InitConstructed /\ InitExtract /\ InitChart
    /\ getOutcome \in {"response", "transportError"}
    /\ bodyState \in BodyStates
    /\ topError = "null"
    /\ dataRequests = 0
NextNews ==
    \E count, start \in Counts : \E shape \in NewsShapes :
        FetchNews(count, start, shape)
SpecNews == InitNews /\ [][NextNews]_vars

\* Every outcome of the request and, when a response was decoded, every
\* dividend rate and yield in either module, handed to the three lookups.
InitLookup ==
    /\ InitSession /\ InitConstructed /\ InitExtract /\ InitChart
    /\ getOutcome \in GetOutcomes
    /\ bodyState \in BodyStates
    /\ topError = "null"
    /\ dataRequests = 0
NextLookup ==
    \/ Decoded /\ \E a \in {"null", "empty"} : DecodeNoResult(a)
    \/ Decoded /\ \E m \in DividendModules : DecodeDividendModule(m)
    \/ Decoded /\ \E m \in DividendModules :
         \E f \in {"DividendRate", "DividendYield"} : \E v \in RawValues :
           DecodeDividendField(m, f, v)
    \/ FetchCurrentDividendYield
    \/ FetchDividendRate
    \/ IsDividendPaying
SpecLookup == InitLookup /\ [][NextLookup]_vars

\* Every outcome of the one request of a call, for every Fetch* function.
InitOutcome ==
    /\ InitSession /\ InitConstructed /\ InitExtract
    /\ historyResponse \in
         {NoChartResult,
          ChartResponse(DailyTimestamps(1),
                        << QuoteOfLengths([f \in QuoteFields |-> 1]) >>)}
    /\ location = 0
    /\ sent = NotSent
    /\ query = [Range |-> "", Interval |-> "", Start |-> "", End |-> ""]
    /\ setDefaults = 0
    /\ infoResult = ZeroTickerInfo
    /\ getOutcome \in GetOutcomes
    /\ bodyState \in BodyStates
    /\ topError \in TopErrors
    /\ dataRequests = 0
NextOutcome ==
    \/ Decoded /\ \E a \in {"null", "empty"} : DecodeNoResult(a)
    \/ Decoded /\ \E v \in PriceValues \cup {Nil} : DecodePrice(v)
    \/ Decoded /\ DecodeDividendModule("SummaryDetail")
    \/ Decoded /\ \E v \in RawValues :
         DecodeDividendField("SummaryDetail", "DividendRate", v)
    \/ FetchInformation
    \/ FetchPriceValue
    \/ FetchHistoricalData("", "", "", "")
    \/ \E shape \in NewsShapes : FetchNews(0, 0, shape)
    \/ FetchNewsAlternative
    \/ FetchFinancialData
    \/ FetchFinancialRatios
    \/ FetchKeyStatistics
    \/ FetchIncomeStatement
    \/ FetchBalanceSheet
    \/ FetchCashFlow
    \/ FetchDividendInfo
    \/ FetchCurrentDividendYield
    \/ FetchDividendRate
    \/ IsDividendPaying
SpecOutcome == InitOutcome /\ [][NextOutcome]_vars

\* ----------------------------------------------------- session properties

\* The step is one of goroutine p's.
StepOf(p) == pc'[p] # pc[p]

\* The step sends p's request of the given phase.
Sends(p, ph) == pc[p] = "do" /\ phase[p] = ph /\ pc'[p] = "wait"

\* The step ends p's call.
Returns(p) == pc[p] # "idle" /\ pc'[p] = "idle"

\* The data request of p's call is built or in flight.
DataRequest(p) == phase[p] = "data" /\ pc[p] \in {"do", "wait"}

\* How often p's call has sent a request of the given phase.
Sent(p, ph) == Cardinality({i \in DOMAIN trace[p] : trace[p][i] = <<ph, "req">>})

IsPrefix(s, t) == Len(s) <= Len(t) /\ \A i \in 1..Len(s) : s[i] = t[i]

\* The requests of a call that finds nothing held, in the order of the code.
FullOrder == << <<"cookie", "req">>, <<"cookie", "done">>, <<"crumb", "req">>,
                <<"crumb", "done">>, <<"data", "req">> >>

\* C1: while every goroutine is inside its first Get, all of them entered
\* with crumb empty and nothing ever stored in cookies (concurrent first
\* use), no more than one cookie request and one crumb request have been
\* issued in total.
C1_OneFetchOnFirstUse ==
    ( /\ calls = NumCallers
      /\ \A p \in Callers : pc[p] # "idle" /\ ~fast[p]
      /\ cookieWrites = 0 )
    => (cookieReqs <= 1 /\ crumbReqs <= 1)

\* C2: cookies and crumb are each assigned at most once, and a data request
\* that carries a crumb carries the stored one.
C2_WrittenOnce ==
    /\ cookieWrites <= 1
    /\ crumbWrites <= 1
    /\ \A p \in Callers :
         (DataRequest(p) /\ reqCrumb[p] # NoParam) => reqCrumb[p] = crumb

\* C3: over calls that do not overlap, whatever the bootstrap requests
\* return, each bootstrap endpoint is requested at most once.
C3_AtMostOnceSequential == cookieReqs <= 1 /\ crumbReqs <= 1

\* C4: a Get call that finds crumb non-empty on entry sends no cookie
\* request and no crumb request and writes neither crumb nor cookies, in any
\* of its steps, whatever its data request returns.
C4_NeverReauthenticates ==
    [][\A p \in Callers :
         ((fast[p] \/ fast'[p]) /\ StepOf(p)) =>
            /\ UNCHANGED <<crumb, cookies, cookieReqs, crumbReqs,
                           cookieWrites, crumbWrites>>
            /\ phase'[p] \in {"data", "none"}]_vars

\* C4 witness: a call that found the crumb held has its data request in
\* flight after an earlier call was answered 401.
C4_Witness ==
    \E p, q \in Callers :
        /\ ret[q] = "401"
        /\ fast[p] /\ pc[p] = "wait" /\ phase[p] = "data"

C6_BootstrapOrder ==
    /\ [](\A p \in Callers :
            (pc[p] # "idle" /\ ~fast[p]) =>
                \/ IsPrefix(trace[p], FullOrder)
                \/ IsPrefix(trace[p], SubSeq(FullOrder, 3, 5)))
    /\ [][\A p \in Callers :
            /\ (pc[p] = "getCookie" /\ crumb = "" /\ cookies = {} /\ StepOf(p)) =>
                  phase'[p] = "cookie" /\ trace[p] = <<>>
            /\ (pc[p] = "wait" /\ phase[p] = "cookie" /\ StepOf(p)) =>
                  phase'[p] = "crumb" /\ pc'[p] = "sign"
            /\ (pc[p] = "do" /\ phase[p] = "crumb" /\ StepOf(p)) =>
                  Sends(p, "crumb") /\ reqCookies'[p] = cookies
            /\ Returns(p) => (crumb # "" \/ Sent(p, "crumb") = 1)]_vars

\* C6 witness: the cookie request failed, the crumb request went out and
\* returned, and the data request is in flight.
C6_Witness ==
    \E p \in Callers :
        /\ "cookie" \in bootFail[p]
        /\ trace[p] = FullOrder
        /\ pc[p] = "wait"

\* C7: get attaches a crumb parameter exactly when crumb is non-empty, the
\* parameter is the stored crumb, the request carries the held cookies, and
\* get writes neither field and starts no other request.
C7_RequestSigning ==
    [][\A p \in Callers :
         /\ (pc[p] = "sign" /\ StepOf(p)) => ((pc'[p] = "add") <=> (crumb # ""))
         /\ (pc[p] = "add" /\ StepOf(p)) => (reqCrumb'[p] = crumb /\ crumb # "")
         /\ (pc[p] = "do" /\ pc'[p] = "wait") =>
               (reqCookies'[p] = cookies /\ reqCrumb'[p] = reqCrumb[p])
         /\ (pc[p] \in {"sign", "add", "do"} /\ StepOf(p)) =>
               /\ UNCHANGED <<crumb, cookies, cookieWrites, crumbWrites>>
               /\ (phase'[p] = phase[p] \/ Returns(p))]_vars

\* --------------------------------------------------- singleton properties

\* C8: for any NewClient and NewTicker calls, sequential or concurrent, the
\* Client is constructed exactly once (never twice, and once as soon as a
\* call got past getClient); every YFinanceAPI wrapper is a distinct object;
\* every wrapper and every Ticker references the one Client held in instance,
\* which is not nil.
C8_Singleton ==
    /\ constructed <= 1
    /\ (wrappers # <<>> \/ \E p \in Callers : npc[p] \in {"ret", "wrap"})
          => constructed = 1 /\ instance # NilClient
    /\ \A p \in Callers : npc[p] \in {"wrap", "tick"} => got[p] = instance
    /\ \A i \in DOMAIN wrappers :
          /\ wrappers[i].Client = instance
          /\ wrappers[i].Client # NilClient
          /\ \A j \in DOMAIN wrappers : i # j => wrappers[i].addr # wrappers[j].addr
    /\ \A i \in DOMAIN tickers :
          /\ tickers[i].Client = instance
          /\ tickers[i].Client # NilClient

\* MaxNew calls have returned, a Ticker among them, by goroutines that met
\* at once.Do: every goroutine holds a Client obtained from getClient.
C8_Witness ==
    /\ Len(wrappers) = MaxNew
    /\ Len(tickers) >= 1
    /\ \A p \in Callers : got[p] # NilClient

\* ------------------------------------------------- normalisation properties

\* summaryDetail.trailingPE is the only non-absent value of the result.
OnlyTrailingPE == SetFields(result) = {<<"SummaryDetail", "TrailingPE">>}

\* C9: when summaryDetail.trailingPE is the only non-absent value anywhere
\* in the result, extractFinancialRatios returns that value as
\* PriceToEarningsRatio and every other field of the FinancialRatios absent.
C9_OnlyTrailingPE ==
    (xpc = "done" /\ OnlyTrailingPE) =>
        /\ ratios.PriceToEarningsRatio = result.SummaryDetail.v.TrailingPE
        /\ ratios.PriceToEarningsRatio # Nil
        /\ \A f \in FinancialRatiosFields \ {"PriceToEarningsRatio"} :
              ratios[f] = Nil

\* The case of C9 with the other two modules present and empty, so that both
\* later blocks of extractFinancialRatios ran.
C9_Witness ==
    /\ xpc = "done"
    /\ OnlyTrailingPE
    /\ result.DefaultKeyStatistics.present
    /\ result.FinancialData.present
    /\ ratios.PriceToEarningsRatio = "v1"

\* The value a field takes from summaryDetail with a fallback to
\* defaultKeyStatistics, as C10 states it.
PreferSummaryDetail(f) ==
    IF result.SummaryDetail.present /\ result.SummaryDetail.v[f] # Nil
      THEN result.SummaryDetail.v[f]
      ELSE IF result.DefaultKeyStatistics.present
             THEN result.DefaultKeyStatistics.v[f]
             ELSE Nil

\* The value a field of module m takes with no fallback.
OnlyFrom(m, f) == IF result[m].present THEN result[m].v[f] ELSE Nil

\* The FinancialRatios fields C10 names as coming from financialData:
\* profitability, liquidity, leverage, growth, EPS, book value per share.
FromFinancialData ==
    {"ReturnOnEquity", "ReturnOnAssets", "GrossMargins", "EbitdaMargins",
     "OperatingMargins", "ProfitMargins", "CurrentRatio", "QuickRatio",
     "DebtToEquity", "TotalDebtToCapital", "EarningsGrowth", "RevenueGrowth",
     "EarningsPerShare", "BookValuePerShare"}

\* C10: for every combination of present and absent modules and fields,
\* PriceToEarningsRatio and PriceToBookRatio are summaryDetail's value when
\* summaryDetail is present and holds one, else defaultKeyStatistics' value
\* when that module is present, else absent; PriceToSalesRatio, DividendRate
\* and DividendYield are summaryDetail's with no fallback; the profitability,
\* liquidity, leverage, growth, EPS and book-value fields are financialData's.
C10_RatiosPrecedence ==
    (xpc = "done") =>
        /\ ratios.PriceToEarningsRatio = PreferSummaryDetail("TrailingPE")
        /\ ratios.PriceToBookRatio = PreferSummaryDetail("PriceToBook")
        /\ ratios.PriceToSalesRatio =
              OnlyFrom("SummaryDetail", "PriceToSalesTrailing12Months")
        /\ ratios.DividendRate = OnlyFrom("SummaryDetail", "DividendRate")
        /\ ratios.DividendYield = OnlyFrom("SummaryDetail", "DividendYield")
        /\ \A f \in FromFinancialData : ratios[f] = OnlyFrom("FinancialData", f)

\* Both modules hold a trailing P/E, and they differ: the result carries
\* summaryDetail's.
C10_Witness ==
    /\ xpc = "done"
    /\ result.SummaryDetail.v.TrailingPE = "v1"
    /\ result.DefaultKeyStatistics.v.TrailingPE = "v2"
    /\ ratios.PriceToEarningsRatio = "v1"

\* The value a field takes from defaultKeyStatistics with a fallback to
\* summaryDetail, as C11 states it.
PreferKeyStatistics(f) ==
    IF result.DefaultKeyStatistics.present /\ result.DefaultKeyStatistics.v[f] # Nil
      THEN result.DefaultKeyStatistics.v[f]
      ELSE IF result.SummaryDetail.present
             THEN result.SummaryDetail.v[f]
             ELSE Nil

\* The six fields C11 names as filled from summaryDetail.
C11_Filled ==
    {"MarketCap", "ForwardPE", "TrailingPE", "PriceToSalesTrailing12Months",
     "PriceToBook", "Beta"}

\* C11: for every combination of present and absent modules and fields,
\* extractFinancialSummary returns for MarketCap, ForwardPE, TrailingPE,
\* PriceToSalesTrailing12Months, PriceToBook and Beta the
\* defaultKeyStatistics value when it is non-absent, else the summaryDetail
\* value, else absent; every other field, MaxAge included, is the
\* defaultKeyStatistics value, or zero / absent without that module.
C11_SummaryPrecedence ==
    (returned.op = "FetchKeyStatistics" /\ returned.err = NoError) =>
        /\ \A f \in C11_Filled : returned.value.v[f] = PreferKeyStatistics(f)
        /\ \A f \in FinancialSummaryFields \ C11_Filled :
              returned.value.v[f] = OnlyFrom("DefaultKeyStatistics", f)
        /\ returned.value.MaxAge =
              IF result.DefaultKeyStatistics.present
                THEN result.DefaultKeyStatistics.MaxAge ELSE 0

\* Both modules hold a trailing P/E, and they differ: the summary carries
\* defaultKeyStatistics', with its MaxAge.
C11_Witness ==
    /\ returned.op = "FetchKeyStatistics"
    /\ returned.err = NoError
    /\ result.SummaryDetail.v.TrailingPE = "v1"
    /\ result.DefaultKeyStatistics.v.TrailingPE = "v2"
    /\ result.DefaultKeyStatistics.MaxAge = 1
    /\ returned.value.v.TrailingPE = "v2"
    /\ returned.value.MaxAge = 1

\* The value of a field of entry 0 of a statement array, absent when the
\* module is absent or the array empty, as C12 states it.
FromFirst(h, f) ==
    IF statements[h].present /\ statements[h].entries # <<>>
      THEN Head(statements[h].entries)[f]
      ELSE Nil

\* C12: the three statement extractors take every statement field from
\* entry 0 of their history array, never from a later entry; with the module
\* absent or the array empty every statement field is absent; whatever the
\* array, IncomeStatement.EarningsPerShare and BalanceSheet.BookValuePerShare
\* are financialData's when that module is present and absent otherwise.
C12_StatementExtraction ==
    (returned.err = NoError) =>
        /\ (returned.op = "FetchIncomeStatement") =>
              /\ returned.value.TotalRevenue =
                    FromFirst("IncomeStatementHistory", "TotalRevenue")
              /\ returned.value.GrossProfit =
                    FromFirst("IncomeStatementHistory", "GrossProfit")
              /\ returned.value.OperatingIncome =
                    FromFirst("IncomeStatementHistory", "OperatingIncome")
              /\ returned.value.NetIncome =
                    FromFirst("IncomeStatementHistory", "NetIncome")
              /\ returned.value.Ebitda =
                    FromFirst("IncomeStatementHistory", "Ebitda")
              /\ returned.value.EarningsPerShare =
                    OnlyFrom("FinancialData", "EarningsPerShare")
        /\ (returned.op = "FetchBalanceSheet") =>
              /\ returned.value.TotalAssets =
                    FromFirst("BalanceSheetHistory", "TotalAssets")
              /\ returned.value.TotalLiabilities =
                    FromFirst("BalanceSheetHistory", "TotalLiab")
              /\ returned.value.TotalEquity =
                    FromFirst("BalanceSheetHistory", "TotalStockholderEquity")
              /\ returned.value.TotalDebt =
                    FromFirst("BalanceSheetHistory", "TotalDebt")
              /\ returned.value.Cash = FromFirst("BalanceSheetHistory", "Cash")
              /\ returned.value.BookValuePerShare =
                    OnlyFrom("FinancialData", "BookValuePerShare")
        /\ (returned.op = "FetchCashFlow") =>
              /\ returned.value.OperatingCashFlow =
                    FromFirst("CashflowStatementHistory",
                              "TotalCashFromOperatingActivities")
              /\ returned.value.CapitalExpenditures =
                    FromFirst("CashflowStatementHistory", "CapitalExpenditures")
              /\ returned.value.FreeCashFlow =
                    FromFirst("CashflowStatementHistory", "FreeCashFlow")
              /\ returned.value.DividendsPaid =
                    FromFirst("CashflowStatementHistory", "DividendsPaid")

\* An income statement array of two entries whose revenues differ: the
\* statement carries the revenue of entry 0.
C12_Witness ==
    /\ returned.op = "FetchIncomeStatement"
    /\ returned.err = NoError
    /\ Len(statements.IncomeStatementHistory.entries) = 2
    /\ statements.IncomeStatementHistory.entries[1].TotalRevenue = "v1"
    /\ statements.IncomeStatementHistory.entries[2].TotalRevenue = "v2"
    /\ returned.value.TotalRevenue = "v1"

\* FetchBalanceSheet has returned for a response with a result[0] whose
\* balanceSheetStatements array is empty.
EmptyBalanceSheetArray ==
    /\ returned.op = "FetchBalanceSheet"
    /\ resultArray = "entries"
    /\ statements.BalanceSheetHistory.present
    /\ statements.BalanceSheetHistory.entries = <<>>

\* C13, as claimed: FetchBalanceSheet on a response with a result[0] and an
\* empty balanceSheetStatements array returns no error and a BalanceSheet
\* with every field absent.
C13_EmptyArrayAllAbsent ==
    EmptyBalanceSheetArray =>
        /\ returned.err = NoError
        /\ \A f \in DOMAIN returned.value : returned.value[f] = Nil

\* C13, amended: in that case FetchBalanceSheet returns no error and a
\* BalanceSheet in which every field but BookValuePerShare is absent;
\* BookValuePerShare is financialData.bookValuePerShare when the response
\* carries financialData, and absent otherwise.
C13_EmptyArrayNoError ==
    EmptyBalanceSheetArray =>
        /\ returned.err = NoError
        /\ \A f \in DOMAIN returned.value \ {"BookValuePerShare"} :
              returned.value[f] = Nil
        /\ returned.value.BookValuePerShare =
              OnlyFrom("FinancialData", "BookValuePerShare")

\* The empty array beside a financialData module that holds a book value
\* per share: no error, and the record carries that value alone.
C13_Witness ==
    /\ EmptyBalanceSheetArray
    /\ result.FinancialData.present
    /\ result.FinancialData.v.BookValuePerShare = "v1"
    /\ returned.err = NoError
    /\ returned.value.BookValuePerShare = "v1"
    /\ returned.value.TotalAssets = Nil

\* The value a dividend field takes from summaryDetail with a fallback to
\* defaultKeyStatistics, as C14 states it.
DividendPreferSummaryDetail(f) ==
    IF dividendResult.SummaryDetail.present
         /\ dividendResult.SummaryDetail.v[f] # Nil
      THEN dividendResult.SummaryDetail.v[f]
      ELSE IF dividendResult.DefaultKeyStatistics.present
             THEN dividendResult.DefaultKeyStatistics.v[f]
             ELSE Nil

\* C14: for every combination of present and absent modules and fields,
\* extractDividendInfo returns for DividendRate, DividendYield, PayoutRatio
\* and FiveYearAvgDividendYield the summaryDetail value when non-absent, else
\* the defaultKeyStatistics value, else absent; ExDividendDate and
\* DividendDate are summaryDetail's alone; DividendsPaid is that of entry 0
\* of cashflowStatements, absent when the array is absent or empty.
C14_DividendPrecedence ==
    (returned.op = "FetchDividendInfo" /\ returned.err = NoError) =>
        /\ \A f \in {"DividendRate", "DividendYield", "PayoutRatio",
                     "FiveYearAvgDividendYield"} :
              returned.value[f] = DividendPreferSummaryDetail(f)
        /\ \A f \in {"ExDividendDate", "DividendDate"} :
              returned.value[f] =
                 IF dividendResult.SummaryDetail.present
                   THEN dividendResult.SummaryDetail.v[f] ELSE Nil
        /\ returned.value.DividendsPaid =
              FromFirst("CashflowStatementHistory", "DividendsPaid")

\* Both modules hold a dividend rate, and they differ: the record carries
\* summaryDetail's.
C14_Witness ==
    /\ returned.op = "FetchDividendInfo"
    /\ returned.err = NoError
    /\ dividendResult.SummaryDetail.v.DividendRate = "v1"
    /\ dividendResult.DefaultKeyStatistics.v.DividendRate = "v2"
    /\ returned.value.DividendRate = "v1"

\* The Fetch* functions, with the zero value of what each returns.
ZeroValueOf ==
    [FetchInformation |-> ZeroTickerInfo,
     FetchHistoricalData |-> NilMap,
     FetchFinancialData |-> ZeroFinancialData,
     FetchFinancialRatios |-> ZeroRatios,
     FetchKeyStatistics |-> ZeroSummary,
     FetchIncomeStatement |-> ZeroIncomeStatement,
     FetchBalanceSheet |-> ZeroBalanceSheet,
     FetchCashFlow |-> ZeroCashFlow,
     FetchDividendInfo |-> ZeroDividendInfo]

\* The response a Fetch* function decoded has a null or empty result array.
EmptyTopLevel(op) ==
    IF op = "FetchHistoricalData"
      THEN historyResponse.Result = <<>>
      ELSE resultArray \in {"null", "empty"}

\* C15: each of the nine Fetch* functions, given a well-formed response
\* whose result array is empty or null, returns the zero value of its record
\* (a nil map for the history) beside a non-nil error that names the symbol;
\* nothing extracted is returned.
C15_EmptyResultIsError ==
    (returned.op \in DOMAIN ZeroValueOf /\ EmptyTopLevel(returned.op)) =>
        /\ returned.err # NoError
        /\ HasSuffix(returned.err, " found for symbol: %s")
        /\ returned.value = ZeroValueOf[returned.op]
        /\ returned.op = "FetchHistoricalData" => returned.value.isNil
        /\ returned.op = "FetchFinancialRatios" => ratios = ZeroRatios

C15_Witness ==
    /\ resultArray = "empty"
    /\ returned.op = "FetchFinancialData"
    /\ returned.err = "no financial data found for symbol: %s"
    /\ returned.value = ZeroFinancialData

\* A call of transformHistoricalData has returned.
Transformed == returned.op = "transformHistoricalData"

\* The interval ends with "d", "wk" or "mo".
EndsInDayWeekMonth(interval) ==
    \E n \in 1..2 :
        /\ Len(interval) >= n
        /\ SubSeq(interval, Len(interval) - n + 1, Len(interval)) \in {"d", "wk", "mo"}

\* YYYY-MM-DD, and YYYY-MM-DD HH:MM:SS.
IsDateKey(k) == Len(k) = 10 /\ SubSeq(k, 5, 5) = "-" /\ SubSeq(k, 8, 8) = "-"
IsDateTimeKey(k) ==
    /\ Len(k) = 19
    /\ IsDateKey(SubSeq(k, 1, 10))
    /\ SubSeq(k, 11, 11) = " "
    /\ SubSeq(k, 14, 14) = ":"
    /\ SubSeq(k, 17, 17) = ":"

\* C16: the keys transformHistoricalData writes are 10-character dates
\* exactly when the interval ends with "d", "wk" or "mo", and
\* 19-character date-times for every other interval, "5m", "1h" and ""
\* among them; a call never mixes the two.
C16_KeyFormat ==
    Transformed =>
        LET keys == DOMAIN returned.value.entries
        IN  /\ EndsInDayWeekMonth(returned.interval) => \A k \in keys : IsDateKey(k)
            /\ ~EndsInDayWeekMonth(returned.interval) =>
                   \A k \in keys : IsDateTimeKey(k)
            /\ returned.interval \in {"5m", "1h", ""} => \A k \in keys : Len(k) = 19
            /\ \A k1, k2 \in keys : Len(k1) = Len(k2)

C16_Witness ==
    /\ Transformed
    /\ returned.interval = "1mo"
    /\ location = 19800
    /\ DOMAIN returned.value.entries = {"2023-11-15"}
    /\ Len(historyResponse.Result[1].Timestamp) = 2

\* The one result entry of the response transformHistoricalData was given.
ChartEntry == historyResponse.Result[1]

\* The key of position i under the interval of the call.
KeyOf(i) == FormatKey(ChartEntry.Timestamp[i], returned.interval, location)

\* The positions of the timestamp array have pairwise distinct keys.
DistinctKeys ==
    \A i, j \in 1..Len(ChartEntry.Timestamp) : i # j => KeyOf(i) # KeyOf(j)

\* Position i (counted from 1) has a quote block and a value in each of the
\* five arrays.
HasAllFive(i) ==
    /\ ChartEntry.Quote # <<>>
    /\ i <= Len(ChartEntry.Quote[1].Open)
    /\ i <= Len(ChartEntry.Quote[1].High)
    /\ i <= Len(ChartEntry.Quote[1].Low)
    /\ i <= Len(ChartEntry.Quote[1].Close)
    /\ i <= Len(ChartEntry.Quote[1].Volume)

\* C17: whatever the lengths of the timestamp array and of the five quote
\* arrays, transformHistoricalData emits a record for a position exactly
\* when there is a quote block and the position lies within all five
\* arrays, and drops every other position without an error; with distinct
\* keys and only the volume array one element short, it emits
\* len(timestamp) - 1 records.
C17_InclusionGuard ==
    (Transformed /\ historyResponse.Result # <<>> /\ DistinctKeys) =>
        LET keys == DOMAIN returned.value.entries
            n == Len(ChartEntry.Timestamp)
        IN  /\ returned.err = NoError
            /\ \A i \in 1..n : KeyOf(i) \in keys <=> HasAllFive(i)
            /\ Cardinality(keys) = Cardinality({i \in 1..n : HasAllFive(i)})
            /\ (/\ ChartEntry.Quote # <<>>
                /\ Len(ChartEntry.Quote[1].Volume) = n - 1
                /\ \A f \in {"Open", "High", "Low", "Close"} :
                      Len(ChartEntry.Quote[1][f]) = n)
               => Cardinality(keys) = n - 1

C17_Witness ==
    /\ Transformed
    /\ historyResponse.Result # <<>>
    /\ Len(ChartEntry.Timestamp) = 2
    /\ ChartEntry.Quote # <<>>
    /\ Len(ChartEntry.Quote[1].Volume) = 1
    /\ \A f \in {"Open", "High", "Low", "Close"} : Len(ChartEntry.Quote[1][f]) = 2
    /\ DOMAIN returned.value.entries = {"2023-11-15"}
    /\ returned.interval = "1d"

\* The positions transformHistoricalData writes a record for.
IncludedPositions == {i \in 1..Len(ChartEntry.Timestamp) : HasAllFive(i)}

\* The greatest included position whose key is k.
LastWithKey(k) ==
    CHOOSE i \in IncludedPositions :
        /\ KeyOf(i) = k
        /\ \A j \in IncludedPositions : KeyOf(j) = k => j <= i

\* The open/high/low/close/volume values of position i, null or not.
TupleAt(i) ==
    [Open |-> ChartEntry.Quote[1].Open[i], High |-> ChartEntry.Quote[1].High[i],
     Low |-> ChartEntry.Quote[1].Low[i], Close |-> ChartEntry.Quote[1].Close[i],
     Volume |-> ChartEntry.Quote[1].Volume[i]]

\* C18: the map transformHistoricalData returns has exactly the keys of the
\* included positions, and under each key the values of the last included
\* position with that key, nulls kept; so it has as many entries as the
\* included positions have distinct keys, 2 for two full positions with
\* distinct keys.
C18_LastWriteWins ==
    (Transformed /\ historyResponse.Result # <<>>) =>
        LET map == returned.value.entries
        IN  /\ ~returned.value.isNil
            /\ DOMAIN map = {KeyOf(i) : i \in IncludedPositions}
            /\ \A k \in DOMAIN map : map[k] = TupleAt(LastWithKey(k))
            /\ Cardinality(DOMAIN map)
                 = Cardinality({KeyOf(i) : i \in IncludedPositions})
            /\ (IncludedPositions = {1, 2} /\ KeyOf(1) # KeyOf(2))
                 => Cardinality(DOMAIN map) = 2

C18_Witness ==
    /\ Transformed
    /\ location = 0
    /\ returned.interval = "1d"
    /\ historyResponse.Result # <<>>
    /\ ChartEntry.Timestamp = <<1700006400, 1700040600>>
    /\ DOMAIN returned.value.entries = {"2023-11-15"}
    /\ returned.value.entries["2023-11-15"].Close = QuoteValue("Close", 2)
    /\ returned.value.entries["2023-11-15"].Volume = Null

\* C19: for every interval, transformHistoricalData given a response with
\* no chart result entries returns a map that is empty and not nil, and
\* no error.
C19_NoResultEmptyMap ==
    (Transformed /\ historyResponse.Result = <<>>) =>
        /\ ~returned.value.isNil
        /\ DOMAIN returned.value.entries = {}
        /\ returned.err = NoError

C19_Witness ==
    /\ Transformed
    /\ historyResponse.Result = <<>>
    /\ returned.interval = ""
    /\ returned.value = [isNil |-> FALSE, entries |-> <<>>]

\* FetchHistoricalData has returned.
Fetched == returned.op = "FetchHistoricalData"

\* What FetchHistoricalData sent and returned, against its arguments.
HistoryDefaults ==
    Fetched =>
        /\ sent["range"] = (IF returned.rangeParam = "" THEN "1y"
                                                        ELSE returned.rangeParam)
        /\ sent["interval"] = (IF returned.interval = "" THEN "1d"
                                                         ELSE returned.interval)
        /\ "period1" \in DOMAIN sent <=> returned.period1 # ""
        /\ "period2" \in DOMAIN sent <=> returned.period2 # ""
        /\ "period1" \in DOMAIN sent => sent["period1"] = returned.period1
        /\ "period2" \in DOMAIN sent => sent["period2"] = returned.period2
        /\ DOMAIN sent \subseteq {"range", "interval", "period1", "period2"}
        /\ historyResponse.Result # <<>> =>
             /\ returned.err = NoError
             /\ DOMAIN returned.value.entries =
                  {FormatKey(ChartEntry.Timestamp[i], sent["interval"], location) :
                     i \in 1..Len(ChartEntry.Timestamp)}
             /\ returned.interval = "" =>
                  \A k \in DOMAIN returned.value.entries : IsDateKey(k)

\* What a call of SetDefault does to the Query.
SetDefaultStep ==
    setDefaults' = setDefaults + 1 =>
        /\ query'.Range = (IF query.Range = "" THEN "1y" ELSE query.Range)
        /\ query'.Interval = (IF query.Interval = "" THEN "1d" ELSE query.Interval)
        /\ query'.Start = query.Start
        /\ query'.End = query.End
        /\ setDefaults >= 1 => query' = query

\* C20: FetchHistoricalData sends range "1y" for an empty rangeParam and
\* interval "1d" for an empty interval and any other value as it is, sends
\* period1 and period2 exactly when they are not empty, and formats the keys
\* with the interval it sent, so with dates for an empty interval;
\* Query.SetDefault applies the same two defaults, and a second call changes
\* nothing.
C20_HistoryDefaults == [](HistoryDefaults) /\ [][SetDefaultStep]_vars

C20_Witness ==
    /\ Fetched
    /\ returned.interval = ""
    /\ returned.rangeParam = ""
    /\ returned.period1 = ""
    /\ returned.period2 = "1700006400"
    /\ sent = [k \in {"range", "interval", "period2"} |->
                 CASE k = "range" -> "1y"
                   [] k = "interval" -> "1d"
                   [] k = "period2" -> "1700006400"]
    /\ DOMAIN returned.value.entries = {"2023-11-14", "2023-11-15"}
    /\ setDefaults = 2
    /\ query.Range = "1y"
    /\ query.Interval = "1h"

\* FetchNews has returned.
NewsFetched == returned.op = "FetchNews"

\* C21: FetchNews sends count 10 for a count of 0 or less and start 0 for a
\* negative start, and any other count and start as they are: the count it
\* sends is positive and the start it sends is not negative.
C21_NewsDefaults ==
    NewsFetched =>
        /\ sent["count"] = ToString(IF returned.count <= 0 THEN 10 ELSE returned.count)
        /\ sent["start"] = ToString(IF returned.start < 0 THEN 0 ELSE returned.start)
        /\ sent["count"] \in {ToString(n) : n \in {c \in Counts \cup {10} : c > 0}}
        /\ sent["start"] \in {ToString(n) : n \in {c \in Counts : c >= 0}}
        /\ SubSeq(sent["count"], 1, 1) \notin {"-", "0"}
        /\ SubSeq(sent["start"], 1, 1) # "-"

C21_Witness ==
    /\ NewsFetched
    /\ returned.count = 0
    /\ returned.start = 0 - 1
    /\ sent["count"] = "10"
    /\ sent["start"] = "0"

\* The error FetchDividendInfo returns on the response, NoError if none.
DividendInfoError ==
    IF getOutcome = "transportError" THEN TransportError
    ELSE IF getOutcome = "requestError" THEN RequestError
    ELSE IF bodyState = "unreadable"
      THEN "failed to decode dividend info JSON response: <read error>"
    ELSE IF bodyState = "malformed"
      THEN "failed to decode dividend info JSON response: <json error>"
    ELSE IF resultArray \in {"null", "empty"}
      THEN "no dividend info found for symbol: %s"
    ELSE NoError

\* What a lookup of field f returned, against the merged field.
LookupOf(f, what) ==
    IF DividendInfoError # NoError
      THEN returned.err = DividendInfoError /\ returned.value = 0
      ELSE /\ returned.err = what \o " not available for symbol: %s"
                <=> DividendPreferSummaryDetail(f) = Nil
           /\ DividendPreferSummaryDetail(f) = Nil => returned.value = 0
           /\ DividendPreferSummaryDetail(f) # Nil =>
                /\ returned.err = NoError
                /\ returned.value = Raw(DividendPreferSummaryDetail(f))
           /\ DividendPreferSummaryDetail(f) = "v0" =>
                returned.err = NoError /\ returned.value = 0

\* C22: FetchDividendRate and FetchCurrentDividendYield return a "not
\* available for symbol" error exactly when the merged DividendRate, resp.
\* DividendYield, is absent, and otherwise its raw value and no error, a raw
\* value of 0 included; an error of FetchDividendInfo is returned as it is.
C22_AbsentIsNotZero ==
    /\ returned.op = "FetchDividendRate" => LookupOf("DividendRate", "dividend rate")
    /\ returned.op = "FetchCurrentDividendYield" =>
         LookupOf("DividendYield", "dividend yield")

C22_Witness ==
    /\ returned.op = "FetchDividendRate"
    /\ ~dividendResult.SummaryDetail.present
    /\ dividendResult.DefaultKeyStatistics.v.DividendRate = "v0"
    /\ returned.value = 0
    /\ returned.err = NoError

\* Every Fetch* function, with the zero value of what it returns.
ZeroReturnOf ==
    [FetchInformation |-> ZeroTickerInfo,
     FetchPriceValue |-> ZeroPriceValue,
     FetchHistoricalData |-> NilMap,
     FetchNews |-> NilNews,
     FetchNewsAlternative |-> NilNews,
     FetchFinancialData |-> ZeroFinancialData,
     FetchFinancialRatios |-> ZeroRatios,
     FetchKeyStatistics |-> ZeroSummary,
     FetchIncomeStatement |-> ZeroIncomeStatement,
     FetchBalanceSheet |-> ZeroBalanceSheet,
     FetchCashFlow |-> ZeroCashFlow,
     FetchDividendInfo |-> ZeroDividendInfo,
     FetchCurrentDividendYield |-> 0,
     FetchDividendRate |-> 0,
     IsDividendPaying |-> FALSE]

\* A Fetch* function has returned.
FetchReturned == returned.op \in DOMAIN ZeroReturnOf

\* A transport error comes back as it is, beside the zero value.
TransportErrorVerbatim ==
    (FetchReturned /\ getOutcome = "transportError") =>
        /\ returned.err = "<transport error>"
        /\ returned.value = ZeroReturnOf[returned.op]

\* C23 as stated: every call of a Fetch* function sends exactly one data
\* request, and a transport error of that request is returned as it is
\* beside the zero value, with no further request.
C23_OneRequestAlways ==
    /\ FetchReturned => dataRequests = 1
    /\ TransportErrorVerbatim

\* C23, amended: every call of a Fetch* function sends at most one data
\* request, exactly one unless the request could not be built, when it
\* sends none and returns that error as it is beside the zero value; a
\* transport error of the request is returned as it is beside the zero
\* value, with no further request.
C23_TransportVerbatimNoRetry ==
    /\ dataRequests <= 1
    /\ FetchReturned => (dataRequests = 1 <=> getOutcome # "requestError")
    /\ (FetchReturned /\ getOutcome = "requestError") =>
         /\ returned.err = "<request error>"
         /\ returned.value = ZeroReturnOf[returned.op]
    /\ TransportErrorVerbatim

C23_Witness ==
    /\ returned.op = "FetchHistoricalData"
    /\ getOutcome = "transportError"
    /\ returned.err = "<transport error>"
    /\ returned.value.isNil
    /\ dataRequests = 1

\* The outcome a caller reads off the error a Fetch* function returned.
OutcomeOf(err) ==
    IF err = NoError THEN "success"
    ELSE IF err \in {"<transport error>", "<request error>"} THEN "transport"
    ELSE IF Len(err) >= 10 /\ SubSeq(err, 1, 10) = "failed to " THEN "decode"
    ELSE IF HasSuffix(err, " found for symbol: %s") /\ SubSeq(err, 1, 3) = "no "
      THEN "empty"
    ELSE "other"

\* The outcome the four tests give, in their order.
OutcomeInOrder(op) ==
    IF getOutcome # "response" THEN "transport"
    ELSE IF bodyState # "json" THEN "decode"
    ELSE IF EmptyTopLevel(op) THEN "empty"
    ELSE "success"

CrumbIsBody ==
    /\ crumbWrites = 0 => crumb = "" /\ crumbResp = NoResponse
    /\ crumbWrites > 0 =>
         /\ crumbResp \in CrumbResponses
         /\ crumb = crumbResp.body
         /\ crumbResp.body = "" => crumb = ""
         /\ crumbResp.status = "401" => crumb = " b "

\* A crumb request that fails, or whose body cannot be read, leaves the
\* crumb as it is.
CrumbFailureKeeps ==
    \A p \in Callers :
        ("crumb" \in bootFail'[p] /\ "crumb" \notin bootFail[p]) =>
            crumb' = crumb /\ crumbWrites' = crumbWrites

\* C25: when the crumb request returns a response whose body can be read,
\* crumb becomes that body, whole and untrimmed, whatever the status; an
\* empty body leaves it empty; a failed request or body read leaves it
\* unchanged.
C25_CrumbValue == [](CrumbIsBody) /\ [][CrumbFailureKeeps]_vars

C25_Witness ==
    /\ crumbResp = [status |-> "401", body |-> " b "]
    /\ crumb = " b "
    /\ \E p \in Callers : pc[p] = "sign" /\ phase[p] = "data"

\* The UTC wall clock of the raw epoch seconds, as a key.
UTCKeyOf(i) == FormatKey(ChartEntry.Timestamp[i], returned.interval, 0)

\* C26: the keys transformHistoricalData writes are the UTC dates, or
\* date-times, of the raw epoch seconds, whatever the time zone of the
\* process, so runs under different time zones give the same key set.
C26_KeysAreUTC ==
    (Transformed /\ historyResponse.Result # <<>>) =>
        DOMAIN returned.value.entries = {UTCKeyOf(i) : i \in IncludedPositions}

\* The merged DividendRate of the response is there and its Raw is positive.
PositiveRate ==
    /\ DividendPreferSummaryDetail("DividendRate") # Nil
    /\ Raw(DividendPreferSummaryDetail("DividendRate")) > 0

\* What FetchDividendRate returns on the response IsDividendPaying was
\* called on.
RateOnSameResponse ==
    LookupResult("FetchDividendRate", "DividendRate",
                 "dividend rate not available for symbol: %s")

\* C27: IsDividendPaying returns true exactly when the merged DividendRate
\* is present with a Raw above 0; it returns false and no error when the
\* rate is absent or its Raw is 0 or less; it returns an error only when
\* FetchDividendInfo does, and then that error; and whenever it returns
\* true, FetchDividendRate on the same response returns a positive value
\* and no error.
C27_DividendPaying ==
    returned.op = "IsDividendPaying" =>
      /\ returned.err = DividendInfoError
      /\ returned.value = TRUE <=> (DividendInfoError = NoError /\ PositiveRate)
      /\ (DividendInfoError = NoError /\ ~PositiveRate) =>
           (returned.value = FALSE /\ returned.err = NoError)
      /\ returned.value = TRUE =>
           (RateOnSameResponse.err = NoError /\ RateOnSameResponse.value > 0)

C27_Witness ==
    /\ returned.op = "IsDividendPaying"
    /\ returned.value = TRUE
    /\ returned.err = NoError
    /\ DividendPreferSummaryDetail("DividendRate") = "v+"
    /\ RateOnSameResponse.value = 1

\* The requests p's call has sent so far, of every kind.
SentInAll(p) == Sent(p, "cookie") + Sent(p, "crumb") + Sent(p, "data")

\* The steps p's call has left at most: every step of a call takes it to a
\* lower rank, and a call at rank 0 has returned.
Rank(p) ==
    IF pc[p] = "idle" THEN 0
    ELSE IF pc[p] = "getCookie" THEN 13
    ELSE (CASE phase[p] = "cookie" -> 8 [] phase[p] = "crumb" -> 4 [] OTHER -> 0)
         + (CASE pc[p] = "sign" -> 4 [] pc[p] = "add" -> 3
              [] pc[p] = "do" -> 2 [] OTHER -> 1)

\* The guards of the two bootstrap requests: a cookie request is started
\* only by a call that found crumb empty on entry and finds cookies empty in
\* getCookie, a crumb request only by a call that found crumb empty on
\* entry.
BootstrapGuards(p) ==
    /\ (pc[p] = "idle" /\ pc'[p] = "getCookie") => crumb = ""
    /\ (pc[p] = "idle" /\ StepOf(p) /\ crumb = "") => ~fast'[p]
    /\ (pc[p] = "getCookie" /\ phase'[p] = "cookie") => (cookies = {} /\ ~fast[p])
    /\ Sends(p, "cookie") => ~fast[p]
    /\ Sends(p, "crumb") => ~fast[p]

\* Every step of a running call lowers its rank.
Progress(p) == (pc[p] # "idle" /\ StepOf(p)) => Rank(p)' < Rank(p)

\* A call that is running returns.
Terminates == \A p \in Callers : (pc[p] # "idle") ~> (pc[p] = "idle")

\* C28, as claimed: every call returns after at most one cookie request, at
\* most one crumb request and exactly one data request, and after exactly
\* one request when crumb was non-empty at entry.
C28_ExactlyOneDataRequest ==
    [][\A p \in Callers : Returns(p) =>
         /\ Sent(p, "cookie") <= 1
         /\ Sent(p, "crumb") <= 1
         /\ Sent(p, "data") + (IF Sends(p, "data") THEN 1 ELSE 0) = 1
         /\ fast[p] => SentInAll(p) = 1]_vars

\* C28, amended: every call of Get returns, every step taking it closer to
\* its return, after at most one cookie request, at most one crumb request
\* and at most one data request: exactly one data request unless the URL
\* does not parse, and then none; a call that found crumb non-empty at
\* entry sends nothing but its data request; a cookie request is sent only
\* if crumb and cookies were both empty when tested, a crumb request only
\* if crumb was empty when tested.
C28_BoundedWork ==
    /\ [](\A p \in Callers :
            /\ Sent(p, "cookie") <= 1 /\ Sent(p, "crumb") <= 1
            /\ Sent(p, "data") <= 1 /\ SentInAll(p) <= 3
            /\ fast[p] => (Sent(p, "cookie") = 0 /\ Sent(p, "crumb") = 0))
    /\ [][\A p \in Callers :
            /\ Progress(p)
            /\ BootstrapGuards(p)
            /\ (Returns(p) /\ pc[p] = "wait") => Sent(p, "data") = 1
            /\ (Returns(p) /\ pc[p] = "do") =>
                  (Sent(p, "data") = 0 /\ ret'[p] = "badURL")
            /\ Returns(p) => pc[p] \in {"wait", "do"}]_vars
    /\ Terminates

\* C28 witness: a call that started with nothing held has sent its three
\* requests while another call, entered with the crumb held, has sent one.
C28_Witness ==
    \E p, q \in Callers :
        /\ ~fast[p] /\ pc[p] = "wait" /\ SentInAll(p) = 3
        /\ fast[q] /\ pc[q] = "wait" /\ SentInAll(q) = 1

\* C29: no request built for or sent to the cookie-issuing or the
\* crumb-issuing endpoint carries a crumb query parameter, whatever the
\* interleaving of the callers.
C29_BootstrapUnsigned ==
    \A p \in Callers :
        (phase[p] \in {"cookie", "crumb"} /\ pc[p] \in {"do", "wait"}) =>
            reqCrumb[p] = NoParam

\* The fields of FinancialRatios no block of extractFinancialRatios assigns.
UnfilledRatios == {"PriceToEbitda", "EnterpriseToRevenue", "EnterpriseToEbitda"}

\* The step is a call of FetchKeyStatistics whose summary took a field from
\* summaryDetail.
FillsFromSummaryDetail ==
    /\ xpc = "input" /\ xpc' = "done"
    /\ returned'.op = "FetchKeyStatistics"
    /\ returned'.err = NoError
    /\ returned'.value # summaryFromKeyStatistics(result.DefaultKeyStatistics)

\* C30: whatever the response holds, extractFinancialRatios returns
\* PriceToEbitda, EnterpriseToRevenue and EnterpriseToEbitda absent, also
\* when financialData holds them; extractIncomeStatement returns DilutedEPS
\* absent; extractBalanceSheet returns ShortTermDebt and LongTermDebt
\* absent; and extractFinancialSummary, filling fields from summaryDetail,
\* leaves the defaultKeyStatistics record it was handed as it was.
C30_NeverFilled ==
    /\ [](/\ \A f \in UnfilledRatios : extractFinancialRatios(result)[f] = Nil
          /\ extractIncomeStatement(result, statements).DilutedEPS = Nil
          /\ extractBalanceSheet(result, statements).ShortTermDebt = Nil
          /\ extractBalanceSheet(result, statements).LongTermDebt = Nil
          /\ returned.op = "FetchFinancialRatios" =>
                \A f \in UnfilledRatios : returned.value[f] = Nil
          /\ returned.op = "FetchIncomeStatement" => returned.value.DilutedEPS = Nil
          /\ returned.op = "FetchBalanceSheet" =>
                (returned.value.ShortTermDebt = Nil /\ returned.value.LongTermDebt = Nil))
    /\ [][FillsFromSummaryDetail =>
            result'.DefaultKeyStatistics = result.DefaultKeyStatistics]_vars

\* C30 witness: financialData holds PriceToEbitda and the ratios returned
\* for it do not.
C30_Witness ==
    /\ returned.op = "FetchFinancialRatios"
    /\ returned.err = NoError
    /\ result.FinancialData.v.PriceToEbitda # Nil
    /\ returned.value.PriceToEbitda = Nil
====
